---- MODULE Spec2Model ----
(***************************************************************************)
(* Detection core of bb_detector: the streak classifier                    *)
(* (DeathDetector.check_death / _confirm_detection), the main loop with    *)
(* its cooldown controller (BBDetectorApp._main_loop / _handle_death),     *)
(* the detection worker (BBDetectorApp._run_detection_sync), the           *)
(* calibration test path (BBDetectorApp._on_test_detection) and the        *)
(* WebSocket client's connection state (BBWebSocket).                      *)
(*                                                                         *)
(* Threads: the asyncio main loop, the executor thread that runs           *)
(* _run_detection_sync, and hotkey threads.  The calibration test runs on  *)
(* the main-loop thread inside App.render().  Every attribute read and     *)
(* every attribute write of the classifier is one step, so that two        *)
(* check_death calls running at the same time interleave the way the       *)
(* interpreter lets them.                                                  *)
(***************************************************************************)
EXTENDS Integers, Sequences, FiniteSets, TLC

\* ---- bounds of the model ----
MaxStreak == 2      \* required_streak ranges over 1..MaxStreak
MaxCooldown == 1    \* cooldown ranges over 0..MaxCooldown (clock ticks)
MaxTicks == 2       \* the clock advances at most MaxTicks times
MaxTextLen == 3     \* longest enumerated OCR text, in characters
MaxKwLen == 2       \* longest enumerated keyword, in characters
MaxCount == 1       \* deaths, boss_deaths and elapsed range over 0..MaxCount
MaxPresses == 4     \* F9 is pressed at most MaxPresses times

\* time.time() at start: far beyond any cooldown (the timestamp starts at 0)
Epoch == MaxCooldown + 1
\* a racing stale store can push the counter past required_streak; cap it
MaxHits == MaxStreak + 2

\* ---- values ----
None == "None"
ConfHit == 1        \* confidence 1.0
ConfMiss == 0       \* confidence 0.0

Contexts == {"worker", "calib"}
Other(t) == IF t = "worker" THEN "calib" ELSE "worker"
\* what a frame shows to the OCR engine
Frames == {"match", "nomatch", "ocrerr"}

VARIABLES
    \* DeathDetector
    consecutive_hits, required_streak, last_method, last_confidence,
    ocr_available,
    \* one activation record of check_death per calling context
    cd,
    \* BBDetectorApp
    detection_result, detection_running, last_death_time, cooldown,
    main_pc, m_result, w_pc, w_frame,
    \* StateManager: three of its keys, the other scalar keys, the
    \* subscribers, and one call of set or update_from_server
    detection_enabled, connected, boss_mode, st, subscribers, sc,
    \* SetupSection
    live_debug_active,
    \* BBWebSocket
    ws_pc, ws_sock, authenticated, ws_running,
    \* the last command handed to BBWebSocket._send or _auth
    sd,
    \* DeathDetector: keyword settings and one call of _contains_keyword
    keywords, fuzzy_matching, ck,
    \* Config: detection.region; the windows on screen; one region lookup
    region, window, rg,
    \* CornerSelector / OverlayRegionSelector: one region selection
    sel,
    \* CornerSelector: the selector object and the hotkey threads in it
    cs, hk,
    \* Config as DeathDetector and the UI share it; DeathDetector's engine
    \* options
    config, tesseract_config,
    \* environment
    now,
    \* history variables
    g_run, g_hist, g_since, last_call, last_eval

classifier == <<consecutive_hits, last_method, last_confidence>>
detectorVars == <<consecutive_hits, required_streak, last_method,
                  last_confidence, ocr_available>>
appVars == <<detection_result, detection_running, last_death_time, cooldown,
             main_pc, m_result, w_pc, w_frame>>
stateVars == <<detection_enabled, connected, boss_mode, live_debug_active,
               st>>
wsVars == <<ws_pc, ws_sock, authenticated, ws_running>>
keywordVars == <<keywords, fuzzy_matching, ck>>
regionVars == <<region, window, rg>>
uiVars == <<sel, cs, hk>>
configVars == <<config, tesseract_config>>
apiVars == <<subscribers, sc, sd>>
calcVars == <<keywordVars, regionVars, uiVars, configVars, apiVars>>
callGhost == <<g_run, g_hist, g_since, last_call>>
evalGhost == <<last_eval>>
vars == <<detectorVars, cd, appVars, stateVars, wsVars, calcVars, now,
          callGhost, evalGhost>>

\* ---- pure parts of the code ----

\* detector.py:110  _ocr_detect returns True only when a keyword is read;
\* an exception inside the OCR call is caught (detector.py:187) -> False
OcrDetect(frame) == frame = "match"

\* detector.py:111-114: the engine is asked only when it is available
Detect_unguarded(available, frame) == OcrDetect(frame)
Detect(available, frame) == available /\ OcrDetect(frame)

\* detector.py:128
IncrHits(hits) == hits + 1

\* detector.py:132
HitsAfterMiss_keep(hits) == hits
HitsAfterMiss(hits) == 0

\* detector.py:137
Confirmed_strict(hits, streak) == hits > streak
Confirmed(hits, streak) == hits >= streak

\* detector.py:141
HitsAfterConfirm_keep(hits) == hits
HitsAfterConfirm(hits) == 0

\* main.py:269
CooldownPassed_inclusive(t, last, cd_) == t - last >= cd_
CooldownPassed(t, last, cd_) == t - last > cd_

\* main.py:338-343
DeathEventType_plain(boss) == "bb-death"
DeathEventType(boss) == IF boss THEN "bb-boss-death" ELSE "bb-death"

\* websocket_client.py:43-45  {'type': msg_type, **kwargs}
BuildMessage(msg_type, kwargs) == kwargs @@ ("type" :> msg_type)
NoKwargs == [k \in {} |-> None]

\* websocket_client.py:108
CanSend_anyone(sock, auth) == sock # "none"
CanSend(sock, auth) == sock # "none" /\ auth

\* the hand-off slot: None, or the pair (is_dead, confidence)
NoResult == [set |-> FALSE, is_dead |-> FALSE, conf |-> ConfMiss]
Result(is_dead, conf) == [set |-> TRUE, is_dead |-> is_dead, conf |-> conf]

NoCall == [valid |-> FALSE]
NoEval == [valid |-> FALSE]
IdleCall == [pc |-> "idle", frame |-> None, detected |-> FALSE,
             conf |-> ConfMiss, method |-> None, hits |-> 0,
             confirmed |-> FALSE, overlap |-> FALSE, seen |-> None]

\* ---- DeathDetector._contains_keyword: text as sequences of characters ----

LowerCase == <<"a", "b", "c", "d", "e", "f", "g", "h", "i", "j", "k", "l", "m",
               "n", "o", "p", "q", "r", "s", "t", "u", "v", "w", "x", "y", "z">>
UpperCase == <<"A", "B", "C", "D", "E", "F", "G", "H", "I", "J", "K", "L", "M",
               "N", "O", "P", "Q", "R", "S", "T", "U", "V", "W", "X", "Y", "Z">>
Digits == {"0", "1", "2", "3", "4", "5", "6", "7", "8", "9"}
Letters == {LowerCase[i] : i \in 1..26} \cup {UpperCase[i] : i \in 1..26}

\* str.upper() on one (ASCII) character
Upper(c) ==
    IF \E i \in 1..26 : LowerCase[i] = c
    THEN UpperCase[CHOOSE i \in 1..26 : LowerCase[i] = c]
    ELSE c

\* str.isalnum() on one (ASCII) character
IsAlnum(c) == c \in Letters \cup Digits

NotSpace(c) == c # " "

StrUpper(s) == [i \in 1..Len(s) |-> Upper(s[i])]

\* str.replace(a, b) for single characters
Replace(s, a, b) == [i \in 1..Len(s) |-> IF s[i] = a THEN b ELSE s[i]]

\* a in b for Python strings
IsSubstring(a, b) ==
    \E i \in 0..(Len(b) - Len(a)) : SubSeq(b, i + 1, i + Len(a)) = a

\* detector.py:200
Normalize(text) == SelectSeq(StrUpper(text), IsAlnum)

\* detector.py:205-212
FuzzyCorrect_chain(s) == Replace(Replace(s, "1", "I"), "0", "1")
FuzzyCorrect(s) ==
    Replace(Replace(Replace(Replace(Replace(s, "0", "O"), "1", "I"),
                            "3", "E"), "5", "S"), "7", "T")

\* detector.py:203-214
Corrected(normalized, fuzzy) ==
    IF fuzzy THEN FuzzyCorrect(normalized) ELSE normalized

\* detector.py:218  keyword.replace(' ', '').upper()
KeywordNormalize(keyword) == StrUpper(SelectSeq(keyword, NotSpace))

\* detector.py:217-224
ContainsKeyword(normalized, corrected, kws) ==
    \E i \in 1..Len(kws) :
        \/ IsSubstring(KeywordNormalize(kws[i]), normalized)
        \/ IsSubstring(KeywordNormalize(kws[i]), corrected)

\* the characters the enumerated texts and keywords are made of: a letter, a
\* digit with a correction, a digit without one, the space and a punctuation
\* mark
Chars == {"o", "0", "2", " ", "-"}
Strs(S, n) == UNION {[1..k -> S] : k \in 0..n}

KwYouDied == <<"Y", "O", "U", "D", "I", "E", "D">>
KwYouDiedSpaced == <<"Y", "O", "U", " ", "D", "I", "E", "D">>
KwGameOver == <<"G", "A", "M", "E", "-", "O", "V", "E", "R">>
TextY0uD1ed == <<"Y", "0", "U", " ", "D", "1", "E", "D">>
TextGameOver == <<"g", "a", "m", "e", " ", "o", "v", "e", "r">>

\* detector.py:36-40 (the first two entries)
DefaultKeywords == <<KwYouDied, KwYouDiedSpaced>>

SampleKeywords == {KwYouDied, KwGameOver}
Texts == Strs(Chars, MaxTextLen) \cup {TextY0uD1ed, TextGameOver}
KwStrings == Strs(Chars, MaxKwLen) \cup SampleKeywords
KeywordLists ==
    {<<>>} \cup {<<k>> : k \in KwStrings}
           \cup {<<s, k>> : s \in SampleKeywords, k \in KwStrings}

IdleKeywordCall == [pc |-> "idle", text |-> <<>>, normalized |-> <<>>,
                    corrected |-> <<>>, found |-> FALSE]

\* ---- Config and DeathDetector._load_settings ----

\* config.py:21-38 and 98-116: two of the games (the keyword lists cut to
\* their first entries)
Games ==
    [Bloodborne |-> [keywords |-> <<KwYouDied, KwYouDiedSpaced>>,
                     tesseract_config |-> "--oem 3 --psm 6"],
     Sekiro |-> [keywords |-> <<KwYouDied>>,
                 tesseract_config |->
                     "--oem 3 --psm 7 -c tessedit_char_whitelist=YOUDIEADFT"]]

\* current_game as stored: a game of the table or any other name
GameNames == {"Bloodborne", "Sekiro", "Elden Ring"}

\* detector.py:64-75: the current game's keywords and engine options, or the
\* defaults where the table has no such game
GameConfig_default(cfg) ==
    [keywords |-> DefaultKeywords, tesseract_config |-> "--oem 3 --psm 6"]
GameConfig(cfg) ==
    IF cfg.current_game \in DOMAIN Games
    THEN Games[cfg.current_game]
    ELSE [keywords |-> DefaultKeywords,
          tesseract_config |-> "--oem 3 --psm 6"]

\* the settings DeathDetector and the main loop read
Configs ==
    [consecutive_hits : 1..MaxStreak, fuzzy_ocr_matching : BOOLEAN,
     current_game : GameNames, death_cooldown : 0..MaxCooldown]

\* config.py:12-19 and 131
DefaultConfig ==
    [consecutive_hits |-> MaxStreak, fuzzy_ocr_matching |-> TRUE,
     current_game |-> "Bloodborne", death_cooldown |-> MaxCooldown]

\* ---- BBDetectorApp._get_detection_region ----

\* a stored fraction is a number of hundredths
FracDen == 100

\* int() of the number num / den: truncation toward zero
Trunc(num, den) == IF num >= 0 THEN num \div den ELSE -((-num) \div den)

Rect(x, y, w, h) == [x |-> x, y |-> y, width |-> w, height |-> h]

\* the tuple (x, y, width, height) the lookup returns, or None
NoRegion == <<>>
Region(x, y, w, h) == <<x, y, w, h>>

\* main.py:202-206
WindowRegion_inner(cfg, wb) ==
    Region(wb.x + Trunc(cfg.x_percent * wb.width, FracDen),
           wb.y + Trunc(cfg.y_percent * wb.height, FracDen),
           Trunc(cfg.w_percent * wb.width, FracDen),
           Trunc(cfg.h_percent * wb.height, FracDen))
WindowRegion(cfg, wb) ==
    Region(Trunc(wb.x * FracDen + cfg.x_percent * wb.width, FracDen),
           Trunc(wb.y * FracDen + cfg.y_percent * wb.height, FracDen),
           Trunc(cfg.w_percent * wb.width, FracDen),
           Trunc(cfg.h_percent * wb.height, FracDen))

\* main.py:218-226
LegacyRegion_always(cfg) == Region(cfg.x, cfg.y, cfg.width, cfg.height)
LegacyRegion(cfg) ==
    IF cfg.width > 0 /\ cfg.height > 0
    THEN Region(cfg.x, cfg.y, cfg.width, cfg.height)
    ELSE NoRegion

\* main.py:209-215, falling through to 218-226
AbsoluteRegion_legacy(cfg) == LegacyRegion(cfg)
AbsoluteRegion(cfg) ==
    IF cfg.absolute.width > 0 /\ cfg.absolute.height > 0
    THEN Region(cfg.absolute.x, cfg.absolute.y, cfg.absolute.width,
                cfg.absolute.height)
    ELSE LegacyRegion(cfg)

\* main.py:189-226
GetDetectionRegion(cfg, win) ==
    IF cfg.window_name
    THEN IF win.found /\ cfg.w_percent > 0 /\ cfg.h_percent > 0
         THEN WindowRegion(cfg, win.bounds)
         ELSE AbsoluteRegion(cfg)
    ELSE LegacyRegion(cfg)

\* the stored values the lookups are run on
Pcts == {0, 20, 25, 40, 50}
NoRect == Rect(0, 0, 0, 0)
AbsoluteRects == {NoRect, Rect(10, 10, 200, 100), Rect(10, 10, 0, 100)}
LegacyRects ==
    {NoRect, Rect(5, 5, 64, 48), Rect(5, 5, 64, 0), Rect(1900, 5, 64, 48)}
WindowBounds == {Rect(100, 50, 800, 600), Rect(-7, -7, 10, 10)}
NoWindow == [found |-> FALSE, bounds |-> NoRect]
Windows == {NoWindow} \cup {[found |-> TRUE, bounds |-> b] : b \in WindowBounds}

RegionConfig(name, xp, yp, wp, hp, abs, leg) ==
    [window_name |-> name, x_percent |-> xp, y_percent |-> yp,
     w_percent |-> wp, h_percent |-> hp, absolute |-> abs,
     x |-> leg.x, y |-> leg.y, width |-> leg.width, height |-> leg.height]

RegionConfigs ==
    {RegionConfig(name, xp, yp, wp, hp, abs, leg) :
       name \in BOOLEAN, xp \in Pcts, yp \in Pcts, wp \in Pcts, hp \in Pcts,
       abs \in AbsoluteRects, leg \in LegacyRects}

\* config.py:6-130: no detection.region keys are set
DefaultRegion == RegionConfig(FALSE, 0, 0, 0, 0, NoRect, NoRect)

\* ---- BBDetectorApp._on_save_region ----

\* the dictionaries handed to _on_save_region: has holds the keys present
\* ui/corner_selector.py:157-171, ui/overlay_selector.py:316-323: a selection
\* on a window
WindowSelection(xp, yp, wp, hp, abs) ==
    [has |-> {"window_name", "absolute"}, window_name |-> TRUE,
     x_percent |-> xp, y_percent |-> yp, w_percent |-> wp, h_percent |-> hp,
     absolute |-> abs, x |-> 0, y |-> 0, width |-> 0, height |-> 0]

\* ui/overlay_selector.py:324-333: a drag with no window under its centre
OverlayMiss(abs) ==
    [has |-> {"window_name", "absolute"}, window_name |-> FALSE,
     x_percent |-> 0, y_percent |-> 0, w_percent |-> 0, h_percent |-> 0,
     absolute |-> abs, x |-> 0, y |-> 0, width |-> 0, height |-> 0]

\* ui/sections/setup.py:393-396: a legacy rectangle
LegacySelection(r) ==
    [has |-> {"x", "y", "width", "height"}, window_name |-> FALSE,
     x_percent |-> 0, y_percent |-> 0, w_percent |-> 0, h_percent |-> 0,
     absolute |-> NoRect, x |-> r.x, y |-> r.y, width |-> r.width,
     height |-> r.height]

SelectedRects == {Rect(10, 10, 200, 100), Rect(90, 90, 310, 310)}
SavedRegions ==
    {WindowSelection(xp, xp, wp, wp, abs) :
       xp \in {0, 25}, wp \in {0, 50}, abs \in SelectedRects}
    \cup {OverlayMiss(abs) : abs \in SelectedRects}
    \cup {LegacySelection(r) : r \in SelectedRects \cup {NoRect}}

\* main.py:551-581
OnSaveRegion(cfg, d) ==
    IF "window_name" \in d.has
    THEN [cfg EXCEPT !.window_name = d.window_name,
                     !.x_percent = d.x_percent, !.y_percent = d.y_percent,
                     !.w_percent = d.w_percent, !.h_percent = d.h_percent,
                     !.absolute = IF "absolute" \in d.has THEN d.absolute
                                  ELSE @,
                     !.x = 0, !.y = 0, !.width = 0, !.height = 0]
    ELSE [cfg EXCEPT !.x = d.x, !.y = d.y, !.width = d.width,
                     !.height = d.height, !.window_name = FALSE]

\* no dictionary was saved
NoSave == [has |-> {}]

Min(a, b) == IF a <= b THEN a ELSE b
Max(a, b) == IF a >= b THEN a ELSE b

\* ui/corner_selector.py:145-155, ui/overlay_selector.py:305-314: the
\* fractions of the window a rectangle (x1, y1)-(x2, y2) covers, each an exact
\* fraction <<numerator, denominator>> of the window's width or height
RelativeRegion_wide(x1, y1, x2, y2, wb) ==
    LET dw == IF wb.width > 0 THEN wb.width ELSE 1
        dh == IF wb.height > 0 THEN wb.height ELSE 1
        cx == Max(0, Min(dw, IF wb.width > 0 THEN x1 - wb.x ELSE 0))
        cy == Max(0, Min(dh, IF wb.height > 0 THEN y1 - wb.y ELSE 0))
    IN [x_percent |-> <<cx, dw>>,
        y_percent |-> <<cy, dh>>,
        w_percent |-> <<Max(0, Min(dw, IF wb.width > 0 THEN x2 - x1 ELSE 0)),
                        dw>>,
        h_percent |-> <<Max(0, Min(dh, IF wb.height > 0 THEN y2 - y1 ELSE 0)),
                        dh>>]
RelativeRegion(x1, y1, x2, y2, wb) ==
    LET dw == IF wb.width > 0 THEN wb.width ELSE 1
        dh == IF wb.height > 0 THEN wb.height ELSE 1
        cx == Max(0, Min(dw, IF wb.width > 0 THEN x1 - wb.x ELSE 0))
        cy == Max(0, Min(dh, IF wb.height > 0 THEN y1 - wb.y ELSE 0))
    IN [x_percent |-> <<cx, dw>>,
        y_percent |-> <<cy, dh>>,
        w_percent |-> <<Max(0, Min(dw - cx,
                                   IF wb.width > 0 THEN x2 - x1 ELSE 0)),
                        dw>>,
        h_percent |-> <<Max(0, Min(dh - cy,
                                   IF wb.height > 0 THEN y2 - y1 ELSE 0)),
                        dh>>]

\* ui/overlay_selector.py:324-333: the region of a drag over no window
NoRelativeRegion ==
    [x_percent |-> <<0, 1>>, y_percent |-> <<0, 1>>,
     w_percent |-> <<0, 1>>, h_percent |-> <<0, 1>>]

\* cursor positions of the two corners and the windows under the cursor
Coords == {-20, 90, 400, 950}
SelWindows == Windows \cup {[found |-> TRUE, bounds |-> Rect(10, 10, 50, 0)]}

IdleSelection ==
    [pc |-> "idle", via |-> None, x1 |-> 0, y1 |-> 0, x2 |-> 0, y2 |-> 0,
     window |-> NoWindow, result |-> NoRelativeRegion]

\* ---- CornerSelector: the F9 protocol (ui/corner_selector.py) ----

\* hotkeys.py:84 starts a thread for every key press; two are enough for
\* presses that overlap
HotkeyThreads == {"h1", "h2"}

\* ui/corner_selector.py:38-41: a new selector; completes counts the
\* on_complete calls since start(), presses the F9 presses so far
IdleCorner ==
    [active |-> FALSE, corners |-> <<>>, target |-> NoWindow,
     completes |-> 0, presses |-> 0]

\* window_utils.get_cursor_position: where the cursor is at a press
CursorPositions == {<<90, 90>>, <<400, 400>>, <<950, 950>>}

\* ui/corner_selector.py:90-121 and 123-181, the body run under the lock,
\* with w the window under the cursor.  _complete's cancel branch (125-127)
\* cannot be taken from here: the window was recorded with the first corner.
OnHotkey_nowindow(c, pos, w) ==
    IF ~c.active THEN c
    ELSE IF Len(c.corners) = 0
    THEN [c EXCEPT !.target = w, !.corners = Append(@, pos)]
    ELSE IF Len(c.corners) = 1
    THEN [c EXCEPT !.corners = Append(@, pos), !.active = FALSE,
                   !.completes = @ + 1]
    ELSE c
OnHotkey(c, pos, w) ==
    IF ~c.active THEN c
    ELSE IF Len(c.corners) = 0
    THEN IF ~w.found THEN c
         ELSE [c EXCEPT !.target = w, !.corners = Append(@, pos)]
    ELSE IF Len(c.corners) = 1
    THEN [c EXCEPT !.corners = Append(@, pos), !.active = FALSE,
                   !.completes = @ + 1]
    ELSE c

\* capture.py:83-87: the size of a full screen frame
ScreenSize == [width |-> 1920, height |-> 1080]

\* main.py:543-547
ClampCrop(x, y, w, h, size) ==
    LET cx == Max(0, Min(x, size.width - 1))
        cy == Max(0, Min(y, size.height - 1))
    IN Region(cx, cy, Min(w, size.width - cx), Min(h, size.height - cy))

\* window_utils.py:526-535 and 632-641: the rectangle cut out of the image
\* of the window
ClampWindowRegion(cfg, wb) ==
    LET rx == Max(0, Min(Trunc(cfg.x_percent * wb.width, FracDen),
                         wb.width - 1))
        ry == Max(0, Min(Trunc(cfg.y_percent * wb.height, FracDen),
                         wb.height - 1))
    IN Region(rx, ry,
              Max(1, Min(Trunc(cfg.w_percent * wb.width, FracDen),
                         wb.width - rx)),
              Max(1, Min(Trunc(cfg.h_percent * wb.height, FracDen),
                         wb.height - ry)))

\* one capture: the rectangle the lookup returned, the capture call made,
\* the rectangle that call cuts out and the size of the frame it is cut from
IdleRegionCall == [pc |-> "idle", result |-> NoRegion, grab |-> None,
                   used |-> NoRegion,
                   frame |-> [width |-> 0, height |-> 0], saved |-> NoSave]

\* ---- StateManager (state.py) ----

\* state.py:59-70: the scalar keys and their first values
InitialState ==
    [deaths |-> 0, elapsed |-> 0, is_running |-> FALSE, boss_mode |-> FALSE,
     boss_deaths |-> 0, boss_paused |-> FALSE, connected |-> FALSE,
     can_edit |-> FALSE, detection_enabled |-> TRUE, profile |-> None,
     profile_display_name |-> None]

\* a session in progress: every key differs from its first value
LoadedState ==
    [deaths |-> MaxCount, elapsed |-> MaxCount, is_running |-> TRUE,
     boss_mode |-> TRUE, boss_deaths |-> MaxCount, boss_paused |-> TRUE,
     connected |-> TRUE, can_edit |-> TRUE, detection_enabled |-> FALSE,
     profile |-> "hunter", profile_display_name |-> "Hunter"]

StateKeys == DOMAIN InitialState

\* the values a caller passes for a key; "unknown" is no key of _state
ValuesOf(key) ==
    CASE key \in {"deaths", "elapsed", "boss_deaths"} -> 0..MaxCount
      [] key \in {"profile", "profile_display_name"} ->
           {None, "hunter", "Hunter"}
      [] OTHER -> BOOLEAN

\* state.py:59-70: the _state dictionary, assembled from the variables that
\* hold its keys
StateDict ==
    [k \in StateKeys |->
       CASE k = "boss_mode" -> boss_mode
         [] k = "connected" -> connected
         [] k = "detection_enabled" -> detection_enabled
         [] OTHER -> st[k]]

\* the variables hold dictionary d now
StateIs(d) ==
    /\ st = [k \in StateKeys \ {"boss_mode", "connected",
                                "detection_enabled"} |-> d[k]]
    /\ boss_mode = d.boss_mode
    /\ connected = d.connected
    /\ detection_enabled = d.detection_enabled

\* the variables hold dictionary d after the step
AssignState(d) ==
    /\ st' = [k \in DOMAIN st |-> d[k]]
    /\ boss_mode' = d.boss_mode
    /\ connected' = d.connected
    /\ detection_enabled' = d.detection_enabled

\* state.py:89-92: set stores a value only under an existing key, and only
\* when it differs from the value held
SetValue(d, key, value) ==
    IF key \in DOMAIN d /\ d[key] # value THEN [d EXCEPT ![key] = value]
    ELSE d

\* state.py:93-94 and 103-108: the callbacks one set runs, in subscription
\* order, each with the key and the new value
SetNotes_always(d, key, value, subs) ==
    [i \in 1..Len(subs) |-> <<subs[i], key, value>>]
SetNotes(d, key, value, subs) ==
    IF key \in DOMAIN d /\ d[key] # value
    THEN [i \in 1..Len(subs) |-> <<subs[i], key, value>>]
    ELSE <<>>

\* state.py:112-122: server key -> state key, in the order the code walks
ServerMapping_swapped ==
    <<<<"deaths", "boss_deaths">>, <<"elapsed", "elapsed">>,
      <<"isRunning", "is_running">>, <<"bossFightMode", "boss_mode">>,
      <<"bossDeaths", "deaths">>, <<"bossPaused", "boss_paused">>,
      <<"canEdit", "can_edit">>, <<"profileName", "profile">>,
      <<"displayName", "profile_display_name">>>>
ServerMapping ==
    <<<<"deaths", "deaths">>, <<"elapsed", "elapsed">>,
      <<"isRunning", "is_running">>, <<"bossFightMode", "boss_mode">>,
      <<"bossDeaths", "boss_deaths">>, <<"bossPaused", "boss_paused">>,
      <<"canEdit", "can_edit">>, <<"profileName", "profile">>,
      <<"displayName", "profile_display_name">>>>

\* a bb-state payload with every scalar key at its first value / changed
PayloadOff ==
    [deaths |-> 0, elapsed |-> 0, isRunning |-> FALSE,
     bossFightMode |-> FALSE, bossDeaths |-> 0, bossPaused |-> FALSE,
     canEdit |-> FALSE, profileName |-> None, displayName |-> None]
PayloadOn ==
    [deaths |-> MaxCount, elapsed |-> MaxCount, isRunning |-> TRUE,
     bossFightMode |-> TRUE, bossDeaths |-> MaxCount, bossPaused |-> TRUE,
     canEdit |-> TRUE, profileName |-> "hunter", displayName |-> "Hunter"]

\* a received dictionary: `has` is the set of keys it carries, the fields
\* of absent keys are blank
ServerData(has, payload) ==
    [k \in {"has"} \cup DOMAIN payload |->
       IF k = "has" THEN has
       ELSE IF k \in has THEN payload[k] ELSE PayloadOff[k]]

\* every bb-state message over the two payloads
ServerStates ==
    {ServerData(has, p) : has \in SUBSET (DOMAIN PayloadOff),
                          p \in {PayloadOff, PayloadOn}}

\* the messages that matter to the dispatch: canEdit, and bossFightMode
\* present or not
BossStates ==
    {ServerData({"canEdit"} \cup hb,
                [PayloadOff EXCEPT !.canEdit = c, !.bossFightMode = b]) :
       hb \in SUBSET {"bossFightMode"}, c \in BOOLEAN, b \in BOOLEAN}

\* the messages of a session: the counters and the boss flag as well, or
\* the death count alone
SessionStates ==
    {ServerData(has, p) :
       has \in {{"canEdit", "bossFightMode", "deaths", "bossDeaths"},
                {"canEdit", "deaths"}},
       p \in {PayloadOff, PayloadOn}}

\* state.py:124-126: `if server_key in data: self.set(state_key, ...)` for
\* the pairs of the mapping from position i on; the result is the
\* dictionary and the callbacks run
RECURSIVE ApplyMapping(_, _, _, _, _)
ApplyMapping(mapping, i, d, data, subs) ==
    IF i > Len(mapping) THEN [d |-> d, notes |-> <<>>]
    ELSE LET server_key == mapping[i][1]
             state_key == mapping[i][2]
         IN IF server_key \in data.has
            THEN LET rest == ApplyMapping(mapping, i + 1,
                                          SetValue(d, state_key,
                                                   data[server_key]),
                                          data, subs)
                 IN [d |-> rest.d,
                     notes |-> SetNotes(d, state_key, data[server_key],
                                        subs) \o rest.notes]
            ELSE ApplyMapping(mapping, i + 1, d, data, subs)

\* state.py:110-126 for the scalar keys
UpdateFromServer(d, data, subs) ==
    ApplyMapping(ServerMapping, 1, d, data, subs)

\* the subscriber lists tried: none, the UI (ui/app.py:179), and a second
\* subscriber after it
SubscriberLists == {<<>>, <<"ui">>, <<"ui", "log">>}

\* one call of StateManager.set or update_from_server: its arguments, the
\* dictionary before it and the callbacks it ran
IdleStateCall ==
    [pc |-> "idle", op |-> None, key |-> None, value |-> None,
     data |-> ServerData({}, PayloadOff), before |-> InitialState,
     notes |-> <<>>]

\* nothing was handed to _send or _auth yet
NoSend == [valid |-> FALSE]

\* everything but the streak counter, its threshold and the shared state
InitCore ==
    /\ last_method = None
    /\ last_confidence = ConfMiss
    /\ ocr_available \in BOOLEAN
    /\ cd = [t \in Contexts |-> IdleCall]
    /\ detection_result = NoResult
    /\ detection_running = FALSE
    /\ last_death_time = 0
    /\ cooldown \in 0..MaxCooldown
    /\ main_pc = "check"
    /\ m_result = NoResult
    /\ w_pc = "idle"
    /\ w_frame = None
    /\ live_debug_active \in BOOLEAN
    /\ ws_pc = "connecting"
    /\ ws_sock = "none"
    /\ authenticated = FALSE
    /\ ws_running = TRUE
    /\ now = Epoch
    /\ g_run = 0
    /\ g_hist = 0
    /\ g_since = -1
    /\ last_call = NoCall
    /\ last_eval = NoEval

InitApp ==
    /\ InitCore
    /\ StateIs(InitialState)
    /\ consecutive_hits = 0
    /\ required_streak \in 1..MaxStreak

\* detector.py:62-69 with the defaults; no _contains_keyword call is active
InitKeywordIdle ==
    /\ keywords = DefaultKeywords
    /\ fuzzy_matching = TRUE
    /\ ck = IdleKeywordCall

\* no region is configured and no lookup is active
InitRegionIdle ==
    /\ region = DefaultRegion
    /\ window = NoWindow
    /\ rg = IdleRegionCall

\* no selection is in progress
InitUiIdle ==
    /\ sel = IdleSelection
    /\ cs = IdleCorner
    /\ hk = [h \in HotkeyThreads |-> "idle"]

\* config.py:6-144, detector.py:65-75: the configuration as shipped
InitConfigIdle ==
    /\ config = DefaultConfig
    /\ tesseract_config = Games["Bloodborne"].tesseract_config

\* ui/app.py:179: the UI is the one subscriber; no StateManager call is
\* active and nothing was sent
InitApiIdle ==
    /\ subscribers = <<"ui">>
    /\ sc = IdleStateCall
    /\ sd = NoSend

Init ==
    /\ InitApp
    /\ InitKeywordIdle
    /\ InitRegionIdle
    /\ InitUiIdle
    /\ InitConfigIdle
    /\ InitApiIdle

\* ---- DeathDetector.check_death, one step per attribute access ----

\* the thread a calling context runs on: the worker runs in the default
\* executor (main.py:282), the calibration test inside App.render()
\* (ui/app.py:473-479, ui/sections/setup.py:575) on the main-loop thread
ThreadOf(t) == IF t = "worker" THEN "executor" ELSE "main"

\* entry of check_death(frame) with a frame that is not None
CallCheckDeath(t, frame) ==
    cd' = [cd EXCEPT
             ![t] = [IdleCall EXCEPT !.pc = "ocr", !.frame = frame,
                        !.overlap = cd[Other(t)].pc # "idle"],
             ![Other(t)].overlap = @ \/ cd[Other(t)].pc # "idle"]

\* detector.py:108-114; seen keeps what the frame showed
CheckDeath_ocr(t) ==
    /\ cd[t].pc = "ocr"
    /\ LET detected == Detect(ocr_available, cd[t].frame)
       IN cd' = [cd EXCEPT ![t].detected = detected,
                    ![t].seen = cd[t].frame,
                    ![t].frame = None,
                    ![t].conf = IF detected THEN ConfHit ELSE ConfMiss,
                    ![t].method = IF detected THEN "ocr" ELSE None,
                    ![t].pc = IF detected THEN "load" ELSE "reset"]
    /\ UNCHANGED <<detectorVars, appVars, stateVars, wsVars, now, calcVars,
                   callGhost, evalGhost>>

\* detector.py:128, the read of self.consecutive_hits
ConfirmDetection_load(t) ==
    /\ cd[t].pc = "load"
    /\ cd' = [cd EXCEPT ![t].hits = consecutive_hits, ![t].pc = "incr"]
    /\ UNCHANGED <<detectorVars, appVars, stateVars, wsVars, now, calcVars,
                   callGhost, evalGhost>>

\* detector.py:128, the write of self.consecutive_hits
ConfirmDetection_incr(t) ==
    /\ cd[t].pc = "incr"
    /\ IncrHits(cd[t].hits) <= MaxHits
    /\ consecutive_hits' = IncrHits(cd[t].hits)
    /\ cd' = [cd EXCEPT ![t].pc = "last", ![t].hits = 0]
    /\ UNCHANGED <<required_streak, last_method, last_confidence,
                   ocr_available, appVars, stateVars, wsVars, now, calcVars,
                   callGhost, evalGhost>>

\* detector.py:132
ConfirmDetection_reset(t) ==
    /\ cd[t].pc = "reset"
    /\ consecutive_hits' = HitsAfterMiss(consecutive_hits)
    /\ cd' = [cd EXCEPT ![t].pc = "last"]
    /\ UNCHANGED <<required_streak, last_method, last_confidence,
                   ocr_available, appVars, stateVars, wsVars, now, calcVars,
                   callGhost, evalGhost>>

\* detector.py:129-130 and 133-134
ConfirmDetection_last(t) ==
    /\ cd[t].pc = "last"
    /\ last_method' = cd[t].method
    /\ last_confidence' = cd[t].conf
    /\ cd' = [cd EXCEPT ![t].pc = "test"]
    /\ UNCHANGED <<consecutive_hits, required_streak, ocr_available, appVars,
                   stateVars, wsVars, now, calcVars, callGhost, evalGhost>>

\* detector.py:137-139
ConfirmDetection_test(t) ==
    /\ cd[t].pc = "test"
    /\ LET confirmed == Confirmed(consecutive_hits, required_streak)
       IN cd' = [cd EXCEPT ![t].confirmed = confirmed,
                    ![t].pc = IF confirmed THEN "clear" ELSE "return"]
    /\ UNCHANGED <<detectorVars, appVars, stateVars, wsVars, now, calcVars,
                   callGhost, evalGhost>>

\* detector.py:141
ConfirmDetection_clear(t) ==
    /\ cd[t].pc = "clear"
    /\ consecutive_hits' = HitsAfterConfirm(consecutive_hits)
    /\ cd' = [cd EXCEPT ![t].pc = "return"]
    /\ UNCHANGED <<required_streak, last_method, last_confidence,
                   ocr_available, appVars, stateVars, wsVars, now, calcVars,
                   callGhost, evalGhost>>

\* history of the calls: a call is clean when no other check_death call was
\* active at any moment of it
Bump(n) == IF n + 1 > MaxHits THEN MaxHits ELSE n + 1

RecordReturn(t) ==
    LET c == cd[t]
        clean == ~c.overlap
        quiet == cd[Other(t)].pc = "idle"
    IN
    /\ last_call' = [valid |-> TRUE, clean |-> clean, detected |-> c.detected,
                     confirmed |-> c.confirmed, conf |-> c.conf,
                     run |-> g_run, hist |-> g_hist, since |-> g_since,
                     hits_after |-> consecutive_hits]
    /\ g_run' = IF quiet /\ consecutive_hits = 0 THEN 0
                ELSE IF clean /\ g_run >= 0 /\ c.detected THEN Bump(g_run)
                ELSE -1
    /\ g_hist' = IF clean /\ (~c.detected \/ c.confirmed) THEN 0
                 ELSE IF clean /\ g_hist >= 0 THEN Bump(g_hist)
                 ELSE -1
    /\ g_since' = IF clean /\ c.confirmed THEN 0
                  ELSE IF clean /\ c.detected /\ g_since >= 0 THEN Bump(g_since)
                  ELSE -1

\* detector.py:143 and the caller's use of the value: main.py:324-325 stores
\* it in the hand-off slot, main.py:589 hands it back to the UI
CheckDeath_return(t) ==
    /\ cd[t].pc = "return"
    /\ cd' = [cd EXCEPT ![t] = IdleCall]
    /\ RecordReturn(t)
    /\ IF t = "worker"
       THEN /\ w_pc = "call"
            /\ detection_result' = Result(cd[t].confirmed, cd[t].conf)
            /\ w_pc' = "finally"
            /\ UNCHANGED main_pc
       ELSE /\ main_pc = "calib"
            /\ main_pc' = "sleep"
            /\ UNCHANGED <<detection_result, w_pc>>
    /\ UNCHANGED <<detectorVars, detection_running, last_death_time, cooldown,
                   m_result, w_frame, stateVars, wsVars, now, calcVars,
                   evalGhost>>

\* ---- BBDetectorApp._run_detection_sync (executor thread) ----

\* main.py:299-321: the capture; it yields an image, None, or raises
RunDetectionSync_capture ==
    /\ w_pc = "capture"
    /\ \E f \in Frames \cup {"none", "raise"} :
         IF f = "none"
         THEN w_pc' = "noframe" /\ w_frame' = "none" /\ UNCHANGED cd
         ELSE IF f = "raise"
         THEN w_pc' = "except" /\ w_frame' = "raise" /\ UNCHANGED cd
         ELSE /\ w_pc' = "call"
              /\ w_frame' = "image"
              /\ CallCheckDeath("worker", f)
    /\ UNCHANGED <<detectorVars, detection_result, detection_running,
                   last_death_time, cooldown, main_pc, m_result, stateVars,
                   wsVars, now, calcVars, callGhost, evalGhost>>

\* main.py:326-327: no frame, check_death is not called
RunDetectionSync_noframe_miss ==
    /\ w_pc = "noframe"
    /\ detection_result' = Result(FALSE, ConfMiss)
    /\ consecutive_hits' = 0
    /\ w_pc' = "finally"
    /\ UNCHANGED <<required_streak, last_method, last_confidence,
                   ocr_available, cd, detection_running, last_death_time,
                   cooldown, main_pc, m_result, w_frame, stateVars, wsVars,
                   now, calcVars, callGhost, evalGhost>>

RunDetectionSync_noframe ==
    /\ w_pc = "noframe"
    /\ detection_result' = Result(FALSE, ConfMiss)
    /\ w_pc' = "finally"
    /\ UNCHANGED <<detectorVars, cd, detection_running, last_death_time,
                   cooldown, main_pc, m_result, w_frame, stateVars, wsVars,
                   now, calcVars, callGhost, evalGhost>>

\* main.py:328-330
RunDetectionSync_except_silent ==
    /\ w_pc = "except"
    /\ w_pc' = "finally"
    /\ UNCHANGED <<detectorVars, cd, detection_result, detection_running,
                   last_death_time, cooldown, main_pc, m_result, w_frame,
                   stateVars, wsVars, now, calcVars, callGhost, evalGhost>>
RunDetectionSync_except ==
    /\ w_pc = "except"
    /\ detection_result' = Result(FALSE, ConfMiss)
    /\ w_pc' = "finally"
    /\ UNCHANGED <<detectorVars, cd, detection_running, last_death_time,
                   cooldown, main_pc, m_result, w_frame, stateVars, wsVars,
                   now, calcVars, callGhost, evalGhost>>

\* main.py:331-332
RunDetectionSync_finally ==
    /\ w_pc = "finally"
    /\ detection_running' = FALSE
    /\ w_pc' = "idle"
    /\ w_frame' = None
    /\ UNCHANGED <<detectorVars, cd, detection_result, last_death_time,
                   cooldown, main_pc, m_result, stateVars, wsVars, now,
                   calcVars, callGhost, evalGhost>>

\* ---- BBDetectorApp._main_loop (asyncio main thread) ----

\* main.py:253-254
MainLoop_check ==
    /\ main_pc = "check"
    /\ IF detection_result.set
       THEN m_result' = detection_result /\ main_pc' = "take"
       ELSE m_result' = NoResult /\ main_pc' = "start"
    /\ UNCHANGED <<detectorVars, cd, detection_result, detection_running,
                   last_death_time, cooldown, w_pc, w_frame, stateVars,
                   wsVars, now, calcVars, callGhost, evalGhost>>

\* main.py:255-267
MainLoop_take ==
    /\ main_pc = "take"
    /\ detection_result' = NoResult
    /\ main_pc' = IF m_result.is_dead THEN "cooldown" ELSE "start"
    /\ m_result' = NoResult
    /\ UNCHANGED <<detectorVars, cd, detection_running, last_death_time,
                   cooldown, w_pc, w_frame, stateVars, wsVars, now, calcVars,
                   callGhost, evalGhost>>

\* websocket_client.py:106-110: the messages one _send call puts on the
\* socket
SendWire(msg) ==
    IF CanSend(ws_sock, authenticated) /\ ws_sock = "open" THEN <<msg>>
    ELSE <<>>

\* ws.send on a socket that has closed raises ConnectionClosed
SendRaises == CanSend(ws_sock, authenticated) /\ ws_sock = "closed"

\* websocket_client.py:106-110: what one _send(msg_type) call did, with the
\* socket and the flag it found
SendRecord(msg_type) ==
    [valid |-> TRUE, type |-> msg_type, sock |-> ws_sock,
     auth |-> authenticated,
     wired |-> SendWire(BuildMessage(msg_type, NoKwargs)),
     raised |-> SendRaises]

\* websocket_client.py:112-189: the commands of the client
Commands ==
    {"bb-death", "bb-boss-death", "bb-start", "bb-stop", "bb-boss-start",
     "bb-boss-victory", "bb-reset", "bb-milestone-add", "bb-stats-add"}

\* main.py:268-271 with _handle_death (main.py:334-344) and
\* send_death/send_boss_death (websocket_client.py:112-118); an exception
\* of the send leaves _main_loop (main.py:170-175)
MainLoop_cooldown ==
    /\ main_pc = "cooldown"
    /\ LET passed == CooldownPassed(now, last_death_time, cooldown)
           msg == BuildMessage(DeathEventType(boss_mode), NoKwargs)
       IN IF passed
          THEN /\ last_death_time' = now
               /\ main_pc' = IF SendRaises THEN "crashed" ELSE "start"
               /\ last_eval' = [valid |-> TRUE, forwarded |-> <<msg>>,
                                wired |-> SendWire(msg)]
          ELSE /\ main_pc' = "start"
               /\ last_eval' = [valid |-> TRUE, forwarded |-> <<>>,
                                wired |-> <<>>]
               /\ UNCHANGED last_death_time
    /\ UNCHANGED <<detectorVars, cd, detection_result, detection_running,
                   cooldown, m_result, w_pc, w_frame, stateVars, wsVars, now,
                   calcVars, callGhost>>

\* main.py:274-285; the detection interval has or has not elapsed
MainLoop_start ==
    /\ main_pc = "start"
    /\ \E due \in BOOLEAN :
         IF due /\ ~detection_running /\ detection_enabled /\ connected
         THEN /\ detection_running' = TRUE
              /\ w_pc' = "capture"
         ELSE UNCHANGED <<detection_running, w_pc>>
    /\ main_pc' = "render"
    /\ UNCHANGED <<detectorVars, cd, detection_result, last_death_time,
                   cooldown, m_result, w_frame, stateVars, wsVars, now,
                   calcVars, callGhost, evalGhost>>

\* main.py:288: App.render() -> SetupSection.update()
\* (ui/sections/setup.py:571-575): with live preview on, every tenth frame
\* runs _update_live_debug (setup.py:448-460), which captures a frame and
\* calls on_test_detection = BBDetectorApp._on_test_detection
\* (main.py:587-589), which is check_death; a None frame returns before the
\* call
MainLoop_render ==
    /\ main_pc = "render"
    /\ \/ main_pc' = "sleep" /\ UNCHANGED cd
       \/ /\ live_debug_active
          /\ \E f \in Frames :
               /\ main_pc' = "calib"
               /\ CallCheckDeath("calib", f)
    /\ UNCHANGED <<detectorVars, detection_result, detection_running,
                   last_death_time, cooldown, m_result, w_pc, w_frame,
                   stateVars, wsVars, now, calcVars, callGhost, evalGhost>>

\* main.py:292 and 249: the sleep ends and the next iteration begins
MainLoop_sleep ==
    /\ main_pc = "sleep"
    /\ main_pc' = "check"
    /\ last_eval' = NoEval
    /\ UNCHANGED <<detectorVars, cd, detection_result, detection_running,
                   last_death_time, cooldown, m_result, w_pc, w_frame,
                   stateVars, wsVars, now, calcVars, callGhost>>

\* ---- BBWebSocket.connect and its callbacks (a task of the same event ----
\* ---- loop: it runs only while the main loop is suspended in its sleep) ----

\* websocket_client.py:47-55, main.py:353-356: connect() has set _running
\* and the attempt succeeds; _running is not read again before the
\* connection is used
WsConnect ==
    /\ main_pc = "sleep"
    /\ ws_pc = "connecting"
    /\ ws_sock' = "open"
    /\ authenticated' = FALSE
    /\ connected' = TRUE
    /\ ws_pc' = "connected"
    /\ UNCHANGED <<detectorVars, cd, appVars, detection_enabled, boss_mode,
                   live_debug_active, st, ws_running, now, calcVars,
                   callGhost, evalGhost>>

\* websocket_client.py:61-64 and 50, main.py:358-362: what the connect loop
\* does once a connection or an attempt is over
LoopTail_keep ==
    IF ws_running
    THEN /\ connected' = FALSE
         /\ st' = [st EXCEPT !.can_edit = FALSE]
         /\ ws_pc' = "backoff"
         /\ UNCHANGED authenticated
    ELSE /\ ws_pc' = "stopped"
         /\ UNCHANGED <<authenticated, connected, st>>
LoopTail ==
    IF ws_running
    THEN /\ authenticated' = FALSE
         /\ connected' = FALSE
         /\ st' = [st EXCEPT !.can_edit = FALSE]
         /\ ws_pc' = "backoff"
    ELSE /\ ws_pc' = "stopped"
         /\ UNCHANGED <<authenticated, connected, st>>

\* websocket_client.py:58-64, main.py:358-362: the connection attempt fails
WsConnectFail ==
    /\ main_pc = "sleep"
    /\ ws_pc = "connecting"
    /\ LoopTail
    /\ UNCHANGED <<detectorVars, cd, appVars, detection_enabled, boss_mode,
                   live_debug_active, ws_sock, ws_running, now, calcVars,
                   callGhost, evalGhost>>

\* websocket_client.py:79-88, main.py:348-351, state.py:110-126: a bb-state
\* message.  The bb-auth request it may trigger (websocket_client.py:81-82,
\* Auth_call) changes nothing on this side.
WsRecvState(data) ==
    /\ main_pc = "sleep"
    /\ ws_pc = "connected"
    /\ ws_sock = "open"
    /\ authenticated' = IF "canEdit" \in data.has /\ data.canEdit THEN TRUE
                        ELSE authenticated
    /\ AssignState(SetValue(UpdateFromServer(StateDict, data,
                                              subscribers).d,
                            "connected", TRUE))
    /\ UNCHANGED <<detectorVars, cd, appVars, live_debug_active, ws_pc,
                   ws_sock, ws_running, now, calcVars, callGhost, evalGhost>>

\* websocket_client.py:90-95
WsRecvAuthResult(success) ==
    /\ main_pc = "sleep"
    /\ ws_pc = "connected"
    /\ ws_sock = "open"
    /\ authenticated' = success
    /\ UNCHANGED <<detectorVars, cd, appVars, stateVars, ws_pc, ws_sock,
                   ws_running, now, calcVars, callGhost, evalGhost>>

\* the connection is lost; the socket object stays in self.ws
WsDrop ==
    /\ main_pc = "sleep"
    /\ ws_pc = "connected"
    /\ ws_sock = "open"
    /\ ws_sock' = "closed"
    /\ UNCHANGED <<detectorVars, cd, appVars, stateVars, ws_pc, authenticated,
                   ws_running, now, calcVars, callGhost, evalGhost>>

\* websocket_client.py:56-64, main.py:358-362: the connect loop resumes
\* after the receive loop ended, the socket lost or closed by disconnect()
WsNoticeClose ==
    /\ main_pc = "sleep"
    /\ ws_pc = "connected"
    /\ ws_sock # "open"
    /\ LoopTail
    /\ UNCHANGED <<detectorVars, cd, appVars, detection_enabled, boss_mode,
                   live_debug_active, ws_sock, ws_running, now, calcVars,
                   callGhost, evalGhost>>

\* websocket_client.py:64 and 50: the reconnect delay is over and the loop
\* condition is read
WsRetry ==
    /\ main_pc = "sleep"
    /\ ws_pc = "backoff"
    /\ ws_pc' = IF ws_running THEN "connecting" ELSE "stopped"
    /\ UNCHANGED <<detectorVars, cd, appVars, stateVars, ws_sock,
                   authenticated, ws_running, now, calcVars, callGhost,
                   evalGhost>>

\* websocket_client.py:191-195, main.py:492-495: disconnect(), as the profile
\* switch schedules it on the event loop for the client it replaces; the
\* shared state is left as it is
WsDisconnect ==
    /\ main_pc = "sleep"
    /\ ws_running
    /\ ws_running' = FALSE
    /\ ws_sock' = "none"
    /\ UNCHANGED <<detectorVars, cd, appVars, stateVars, ws_pc, authenticated,
                   now, calcVars, callGhost, evalGhost>>

\* ---- hotkey thread and clock ----

\* main.py:449-451 (hotkeys.py:84 starts a thread per key press)
OnToggleDetection ==
    /\ detection_enabled' = ~detection_enabled
    /\ UNCHANGED <<detectorVars, cd, appVars, st, connected, boss_mode,
                   live_debug_active, wsVars, now, calcVars, callGhost,
                   evalGhost>>

\* ui/sections/setup.py:430-432, a button callback run by the renderer
OnToggleLivePreview ==
    /\ main_pc = "render"
    /\ live_debug_active' = ~live_debug_active
    /\ UNCHANGED <<detectorVars, cd, appVars, st, detection_enabled, connected,
                   boss_mode, wsVars, now, calcVars, callGhost, evalGhost>>

\* wall-clock time passes
Tick ==
    /\ now < Epoch + MaxTicks
    /\ now' = now + 1
    /\ UNCHANGED <<detectorVars, cd, appVars, stateVars, wsVars, calcVars,
                   callGhost, evalGhost>>

\* ---- DeathDetector._contains_keyword ----

\* detector.py:190-224, the whole call
ContainsKeyword_call ==
    /\ ck.pc = "called"
    /\ LET normalized == Normalize(ck.text)
           corrected == Corrected(normalized, fuzzy_matching)
       IN ck' = [pc |-> "returned", text |-> ck.text,
                 normalized |-> normalized, corrected |-> corrected,
                 found |-> ContainsKeyword(normalized, corrected, keywords)]
    /\ UNCHANGED <<detectorVars, cd, appVars, stateVars, wsVars, keywords,
                   fuzzy_matching, regionVars, uiVars, configVars, apiVars,
                   now, callGhost, evalGhost>>

\* ---- the capture of BBDetectorApp._run_detection_sync, step by step ----

\* main.py:303-312: with a window hint and both size fractions positive the
\* window itself is captured; capture_window_region returns None when the
\* window is not found or the capture fails
RunDetectionSync_window ==
    /\ rg.pc = "window"
    /\ \E ok \in BOOLEAN :
         IF /\ region.window_name
            /\ region.w_percent > 0 /\ region.h_percent > 0
            /\ window.found /\ ok
         THEN rg' = [rg EXCEPT
                       !.pc = "done", !.grab = "window_region",
                       !.used = ClampWindowRegion(region, window.bounds),
                       !.frame = [width |-> window.bounds.width,
                                  height |-> window.bounds.height]]
         ELSE rg' = [rg EXCEPT !.pc = "resolve"]
    /\ UNCHANGED <<detectorVars, cd, appVars, stateVars, wsVars, keywordVars,
                   region, window, uiVars, configVars, apiVars, now,
                   callGhost, evalGhost>>

\* main.py:316
GetDetectionRegion_call ==
    /\ rg.pc = "resolve"
    /\ rg' = [rg EXCEPT !.pc = "grab",
                        !.result = GetDetectionRegion(region, window)]
    /\ UNCHANGED <<detectorVars, cd, appVars, stateVars, wsVars, keywordVars,
                   region, window, uiVars, configVars, apiVars, now,
                   callGhost, evalGhost>>

\* main.py:317-321: grab_region on the rectangle as the lookup returned it
\* (capture.py:63-81), or grab() of the whole frame
RunDetectionSync_grab ==
    /\ rg.pc = "grab"
    /\ rg' = [rg EXCEPT !.pc = "done",
                        !.grab = IF rg.result # NoRegion THEN "grab_region"
                                 ELSE "grab",
                        !.used = rg.result,
                        !.frame = ScreenSize]
    /\ UNCHANGED <<detectorVars, cd, appVars, stateVars, wsVars, keywordVars,
                   region, window, uiVars, configVars, apiVars, now,
                   callGhost, evalGhost>>

\* main.py:511-549 on the dictionary SetupSection._get_region_for_capture
\* builds (ui/sections/setup.py:298-311): the window keys when a window hint
\* is stored, the legacy rectangle otherwise
OnCaptureRegion ==
    /\ rg.pc = "calib"
    /\ \E ok \in BOOLEAN :
         IF region.window_name /\ region.w_percent > 0 /\ window.found /\ ok
         THEN rg' = [rg EXCEPT
                       !.pc = "shown", !.grab = "window_region",
                       !.used = ClampWindowRegion(region, window.bounds),
                       !.frame = [width |-> window.bounds.width,
                                  height |-> window.bounds.height]]
         ELSE IF region.window_name \/ region.width = 0 \/ region.height = 0
         THEN rg' = [rg EXCEPT !.pc = "shown", !.grab = "grab",
                               !.frame = ScreenSize]
         ELSE rg' = [rg EXCEPT
                       !.pc = "shown", !.grab = "crop",
                       !.used = ClampCrop(region.x, region.y, region.width,
                                          region.height, ScreenSize),
                       !.frame = ScreenSize]
    /\ UNCHANGED <<detectorVars, cd, appVars, stateVars, wsVars, keywordVars,
                   region, window, uiVars, configVars, apiVars, now,
                   callGhost, evalGhost>>

\* main.py:551-581 as SetupSection.update calls it with the region a
\* selector left (ui/sections/setup.py:556-561); the next detection cycle
\* looks the stored region up
OnSaveRegion_call ==
    /\ rg.pc = "idle"
    /\ \E d \in SavedRegions :
         /\ region' = OnSaveRegion(region, d)
         /\ rg' = [rg EXCEPT !.pc = "window", !.saved = d]
    /\ UNCHANGED <<detectorVars, cd, appVars, stateVars, wsVars, keywordVars,
                   window, uiVars, configVars, apiVars, now, callGhost,
                   evalGhost>>

\* ui/corner_selector.py:123-181: the second F9 press completes the
\* selection on the window found under the first corner
CornerSelector_complete ==
    /\ sel.pc = "select"
    /\ sel.via = "corner"
    /\ IF ~sel.window.found
       THEN sel' = [sel EXCEPT !.pc = "cancelled"]
       ELSE sel' = [sel EXCEPT
                      !.pc = "done",
                      !.result = RelativeRegion(Min(sel.x1, sel.x2),
                                                Min(sel.y1, sel.y2),
                                                Max(sel.x1, sel.x2),
                                                Max(sel.y1, sel.y2),
                                                sel.window.bounds)]
    /\ UNCHANGED <<detectorVars, cd, appVars, stateVars, wsVars, keywordVars,
                   regionVars, cs, hk, configVars,
                   apiVars, now, callGhost, evalGhost>>

\* ui/overlay_selector.py:240-251 (ui/overlay_script.py:115-136) and
\* 294-333: the end of a drag of at least 10 x 10 pixels, on the window
\* under the centre of the drag
OverlayRegionSelector_calculate_region ==
    /\ sel.pc = "select"
    /\ sel.via = "overlay"
    /\ LET x1 == Min(sel.x1, sel.x2)
           y1 == Min(sel.y1, sel.y2)
           x2 == Max(sel.x1, sel.x2)
           y2 == Max(sel.y1, sel.y2)
       IN IF ~(x2 - x1 >= 10 /\ y2 - y1 >= 10)
          THEN sel' = [sel EXCEPT !.pc = "cancelled"]
          ELSE sel' = [sel EXCEPT
                         !.pc = "done",
                         !.result = IF sel.window.found
                                    THEN RelativeRegion(x1, y1, x2, y2,
                                                        sel.window.bounds)
                                    ELSE NoRelativeRegion]
    /\ UNCHANGED <<detectorVars, cd, appVars, stateVars, wsVars, keywordVars,
                   regionVars, cs, hk, configVars,
                   apiVars, now, callGhost, evalGhost>>

\* detector.py:87-91 with _load_settings (detector.py:55-75).  Nothing in the
\* program calls reload(), so it is no disjunct of Next.
Reload ==
    \E cfg \in Configs :
        /\ config' = cfg
        /\ required_streak' = cfg.consecutive_hits
        /\ fuzzy_matching' = cfg.fuzzy_ocr_matching
        /\ keywords' = GameConfig(cfg).keywords
        /\ tesseract_config' = GameConfig(cfg).tesseract_config
        /\ consecutive_hits' = 0
        /\ UNCHANGED <<last_method, last_confidence, ocr_available, cd,
                       appVars, stateVars, wsVars, ck, regionVars, uiVars,
                       apiVars, now, callGhost, evalGhost>>

\* ui/app.py:379-383 on the settings SetupSection._collect_settings gathers
\* (ui/sections/setup.py:501-517)
SaveSettings ==
    \E game \in GameNames, cool \in 0..MaxCooldown :
        /\ config' = [config EXCEPT !.current_game = game,
                                    !.death_cooldown = cool]
        /\ UNCHANGED <<detectorVars, cd, appVars, stateVars, wsVars,
                       keywordVars, regionVars, uiVars, apiVars,
                       tesseract_config, now, callGhost, evalGhost>>

\* ---- CornerSelector: start and the F9 presses ----

\* ui/corner_selector.py:50-57 (ui/sections/setup.py:369-374)
CornerSelector_start ==
    /\ ~cs.active
    /\ cs' = [cs EXCEPT !.active = TRUE, !.corners = <<>>,
                        !.target = NoWindow,
                        !.completes = 0]
    /\ UNCHANGED <<detectorVars, cd, appVars, stateVars, wsVars, keywordVars,
                   regionVars, sel, hk, configVars, apiVars, now, callGhost,
                   evalGhost>>

\* ui/sections/setup.py:376-379 and ui/corner_selector.py:68-79: the press
\* reads _active without the lock and goes on to _on_hotkey if it is set
CornerSelector_on_f9_pressed(h) ==
    /\ hk[h] = "idle"
    /\ cs.presses < MaxPresses
    /\ cs' = [cs EXCEPT !.presses = @ + 1]
    /\ hk' = [hk EXCEPT ![h] = IF cs.active THEN "entered" ELSE "idle"]
    /\ UNCHANGED <<detectorVars, cd, appVars, stateVars, wsVars, keywordVars,
                   regionVars, sel, configVars, apiVars, now, callGhost,
                   evalGhost>>

\* ui/corner_selector.py:90-121: _on_hotkey takes the lock, so its body is
\* one step
CornerSelector_on_hotkey(h) ==
    /\ hk[h] = "entered"
    /\ \E pos \in CursorPositions, w \in Windows :
         cs' = OnHotkey(cs, pos, w)
    /\ hk' = [hk EXCEPT ![h] = "idle"]
    /\ UNCHANGED <<detectorVars, cd, appVars, stateVars, wsVars, keywordVars,
                   regionVars, sel, configVars, apiVars, now, callGhost,
                   evalGhost>>

\* ---- StateManager calls ----

\* state.py:89-94, the whole call
StateSet_call ==
    /\ sc.pc = "called"
    /\ sc.op = "set"
    /\ AssignState(SetValue(StateDict, sc.key, sc.value))
    /\ sc' = [sc EXCEPT !.pc = "returned", !.before = StateDict,
                        !.notes = SetNotes(StateDict, sc.key, sc.value,
                                           subscribers)]
    /\ UNCHANGED <<detectorVars, cd, appVars, live_debug_active, wsVars,
                   keywordVars, regionVars, uiVars, configVars, subscribers,
                   sd, now, callGhost, evalGhost>>

\* state.py:110-126, the whole call
UpdateFromServer_call ==
    /\ sc.pc = "called"
    /\ sc.op = "update"
    /\ LET r == UpdateFromServer(StateDict, sc.data, subscribers)
       IN /\ AssignState(r.d)
          /\ sc' = [sc EXCEPT !.pc = "returned", !.before = StateDict,
                              !.notes = r.notes]
    /\ UNCHANGED <<detectorVars, cd, appVars, live_debug_active, wsVars,
                   keywordVars, regionVars, uiVars, configVars, subscribers,
                   sd, now, callGhost, evalGhost>>

\* ---- commands of the user and of the client ----

\* main.py:366-374 with send_death/send_boss_death
\* (websocket_client.py:112-118): the manual death button or hotkey; the
\* coroutine runs on the event loop while the main loop sleeps
OnManualDeath_counts ==
    /\ main_pc = "sleep"
    /\ connected
    /\ sd' = SendRecord(DeathEventType(boss_mode))
    /\ st' = [st EXCEPT !.deaths = (st.deaths + 1) % (MaxCount + 1)]
    /\ UNCHANGED <<detectorVars, cd, appVars, detection_enabled, connected,
                   boss_mode, live_debug_active, wsVars, keywordVars,
                   regionVars, uiVars, configVars, subscribers, sc, now,
                   callGhost, evalGhost>>
OnManualDeath ==
    /\ main_pc = "sleep"
    /\ connected
    /\ sd' = SendRecord(DeathEventType(boss_mode))
    /\ UNCHANGED <<detectorVars, cd, appVars, stateVars, wsVars,
                   keywordVars, regionVars, uiVars, configVars, subscribers,
                   sc, now, callGhost, evalGhost>>

\* websocket_client.py:106-189: any command method, called on the event
\* loop
Send_call ==
    /\ main_pc = "sleep"
    /\ \E cmd \in Commands : sd' = SendRecord(cmd)
    /\ UNCHANGED <<detectorVars, cd, appVars, stateVars, wsVars,
                   keywordVars, regionVars, uiVars, configVars, subscribers,
                   sc, now, callGhost, evalGhost>>

\* websocket_client.py:81-82 and 100-104: the bb-auth request a bb-state
\* message without edit rights triggers, when a password is configured
Auth_call ==
    /\ main_pc = "sleep"
    /\ ws_pc = "connected"
    /\ ws_sock = "open"
    /\ ~authenticated
    /\ sd' = [valid |-> TRUE, type |-> "bb-auth", sock |-> ws_sock,
              auth |-> authenticated,
              wired |-> <<BuildMessage("bb-auth",
                                      [password |-> "secret"])>>,
              raised |-> FALSE]
    /\ UNCHANGED <<detectorVars, cd, appVars, stateVars, wsVars,
                   keywordVars, regionVars, uiVars, configVars, subscribers,
                   sc, now, callGhost, evalGhost>>

Next ==
    \/ \E t \in Contexts : CheckDeath_ocr(t)
    \/ \E t \in Contexts : ConfirmDetection_load(t)
    \/ \E t \in Contexts : ConfirmDetection_incr(t)
    \/ \E t \in Contexts : ConfirmDetection_reset(t)
    \/ \E t \in Contexts : ConfirmDetection_last(t)
    \/ \E t \in Contexts : ConfirmDetection_test(t)
    \/ \E t \in Contexts : ConfirmDetection_clear(t)
    \/ \E t \in Contexts : CheckDeath_return(t)
    \/ RunDetectionSync_capture
    \/ RunDetectionSync_noframe
    \/ RunDetectionSync_except
    \/ RunDetectionSync_finally
    \/ MainLoop_check
    \/ MainLoop_take
    \/ MainLoop_cooldown
    \/ MainLoop_start
    \/ MainLoop_render
    \/ MainLoop_sleep
    \/ WsConnect
    \/ WsConnectFail
    \/ \E data \in BossStates : WsRecvState(data)
    \/ \E success \in BOOLEAN : WsRecvAuthResult(success)
    \/ WsDrop
    \/ WsNoticeClose
    \/ WsRetry
    \/ WsDisconnect
    \/ OnToggleDetection
    \/ OnToggleLivePreview
    \/ Tick
    \/ ContainsKeyword_call
    \/ RunDetectionSync_window
    \/ GetDetectionRegion_call
    \/ RunDetectionSync_grab
    \/ OnCaptureRegion
    \/ CornerSelector_complete
    \/ OverlayRegionSelector_calculate_region
    \/ SaveSettings

Spec == Init /\ [][Next]_vars

\* The classifier with its two callers: the connection comes up and stays,
\* the clock stands still.
NextDetect ==
    \/ \E t \in Contexts : CheckDeath_ocr(t)
    \/ \E t \in Contexts : ConfirmDetection_load(t)
    \/ \E t \in Contexts : ConfirmDetection_incr(t)
    \/ \E t \in Contexts : ConfirmDetection_reset(t)
    \/ \E t \in Contexts : ConfirmDetection_last(t)
    \/ \E t \in Contexts : ConfirmDetection_test(t)
    \/ \E t \in Contexts : ConfirmDetection_clear(t)
    \/ \E t \in Contexts : CheckDeath_return(t)
    \/ RunDetectionSync_capture
    \/ RunDetectionSync_noframe
    \/ RunDetectionSync_except
    \/ RunDetectionSync_finally
    \/ MainLoop_check
    \/ MainLoop_take
    \/ MainLoop_cooldown
    \/ MainLoop_start
    \/ MainLoop_render
    \/ MainLoop_sleep
    \/ WsConnect
    \/ OnToggleDetection
    \/ OnToggleLivePreview

InitDetect == Init /\ cooldown = MaxCooldown

SpecDetect == InitDetect /\ [][NextDetect]_vars

\* The cooldown controller and the remote client: live preview stays off.
NextDispatch ==
    \/ \E t \in Contexts : CheckDeath_ocr(t)
    \/ \E t \in Contexts : ConfirmDetection_load(t)
    \/ \E t \in Contexts : ConfirmDetection_incr(t)
    \/ \E t \in Contexts : ConfirmDetection_reset(t)
    \/ \E t \in Contexts : ConfirmDetection_last(t)
    \/ \E t \in Contexts : ConfirmDetection_test(t)
    \/ \E t \in Contexts : ConfirmDetection_clear(t)
    \/ \E t \in Contexts : CheckDeath_return(t)
    \/ RunDetectionSync_capture
    \/ RunDetectionSync_noframe
    \/ RunDetectionSync_except
    \/ RunDetectionSync_finally
    \/ MainLoop_check
    \/ MainLoop_take
    \/ MainLoop_cooldown
    \/ MainLoop_start
    \/ MainLoop_render
    \/ MainLoop_sleep
    \/ WsConnect
    \/ WsConnectFail
    \/ \E data \in BossStates : WsRecvState(data)
    \/ \E success \in BOOLEAN : WsRecvAuthResult(success)
    \/ WsDrop
    \/ WsNoticeClose
    \/ WsRetry
    \/ Tick

\* Every matching frame confirms here (required_streak = 1): the streak is
\* SpecDetect's subject, the dispatch decision only sees is_dead.  The
\* detection toggle is SpecDetect's as well.
InitDispatch ==
    Init /\ ~live_debug_active /\ ocr_available /\ required_streak = 1

SpecDispatch == InitDispatch /\ [][NextDispatch]_vars

\* The application at rest, for the specifications of single calls.
InitQuiet ==
    /\ InitApp
    /\ InitConfigIdle
    /\ InitApiIdle
    /\ required_streak = MaxStreak
    /\ ocr_available
    /\ cooldown = MaxCooldown
    /\ ~live_debug_active

\* One call of _contains_keyword on every text, keyword list and fuzzy flag.
NextKeyword == ContainsKeyword_call

InitKeyword ==
    /\ InitQuiet
    /\ InitRegionIdle
    /\ InitUiIdle
    /\ keywords \in KeywordLists
    /\ fuzzy_matching \in BOOLEAN
    /\ \E text \in Texts :
         ck = [IdleKeywordCall EXCEPT !.pc = "called", !.text = text]

SpecKeyword == InitKeyword /\ [][NextKeyword]_vars

\* One capture on every stored region and every window on screen, by the
\* detection cycle or by the calibration section.
NextRegion ==
    \/ RunDetectionSync_window
    \/ GetDetectionRegion_call
    \/ RunDetectionSync_grab
    \/ OnCaptureRegion

InitRegion ==
    /\ InitQuiet
    /\ InitKeywordIdle
    /\ InitUiIdle
    /\ region \in RegionConfigs
    /\ window \in Windows
    /\ \E pc \in {"window", "calib"} : rg = [IdleRegionCall EXCEPT !.pc = pc]

SpecRegion == InitRegion /\ [][NextRegion]_vars

\* A region is saved over any stored one, and the next detection cycle
\* captures on it.
StoredRegions ==
    {c \in RegionConfigs : c.x_percent = c.y_percent
                             /\ c.w_percent = c.h_percent}

NextSave ==
    \/ OnSaveRegion_call
    \/ RunDetectionSync_window
    \/ GetDetectionRegion_call
    \/ RunDetectionSync_grab

InitSave ==
    /\ InitQuiet
    /\ InitKeywordIdle
    /\ InitUiIdle
    /\ region \in StoredRegions
    /\ window \in Windows
    /\ rg = IdleRegionCall

SpecSave == InitSave /\ [][NextSave]_vars

\* One region selection on every pair of corners and every window.
NextSelect ==
    \/ CornerSelector_complete
    \/ OverlayRegionSelector_calculate_region

InitSelect ==
    /\ InitQuiet
    /\ InitKeywordIdle
    /\ InitRegionIdle
    /\ \E via \in {"corner", "overlay"}, x1, y1, x2, y2 \in Coords,
          w \in SelWindows :
         sel = [IdleSelection EXCEPT !.pc = "select", !.via = via,
                                     !.x1 = x1, !.y1 = y1, !.x2 = x2,
                                     !.y2 = y2, !.window = w]
    /\ cs = IdleCorner
    /\ hk = [h \in HotkeyThreads |-> "idle"]

SpecSelect == InitSelect /\ [][NextSelect]_vars

\* A running application whose classifier and main loop were set up from
\* any configuration (detector.py:55-75, main.py:239) and that is part-way
\* through a streak.
InitConfigured ==
    /\ InitCore
    /\ StateIs(InitialState)
    /\ InitRegionIdle
    /\ InitUiIdle
    /\ InitApiIdle
    /\ ck = IdleKeywordCall
    /\ config \in Configs
    /\ required_streak = config.consecutive_hits
    /\ fuzzy_matching = config.fuzzy_ocr_matching
    /\ keywords = GameConfig(config).keywords
    /\ tesseract_config = GameConfig(config).tesseract_config
    /\ cooldown = config.death_cooldown
    /\ consecutive_hits \in 0..(required_streak - 1)

\* reload() on every configuration
SpecReload == InitConfigured /\ [][Reload]_vars

\* the user changes the settings; reload() has no caller in the program
SpecSettings == InitConfigured /\ [][SaveSettings]_vars

\* One call of StateManager.set on every key (and a key the state lacks)
\* and value, or of update_from_server on every message, from a fresh and
\* from a running session, with none, one or two subscribers.
NextState ==
    \/ StateSet_call
    \/ UpdateFromServer_call

InitState ==
    /\ InitCore
    /\ consecutive_hits = 0
    /\ required_streak = MaxStreak
    /\ ocr_available
    /\ cooldown = MaxCooldown
    /\ ~live_debug_active
    /\ InitKeywordIdle
    /\ InitRegionIdle
    /\ InitUiIdle
    /\ InitConfigIdle
    /\ sd = NoSend
    /\ subscribers \in SubscriberLists
    /\ \E d \in {InitialState, LoadedState} : StateIs(d)
    /\ \/ \E key \in StateKeys \cup {"unknown"} :
            \E value \in ValuesOf(key) :
               sc = [IdleStateCall EXCEPT !.pc = "called", !.op = "set",
                                          !.key = key, !.value = value]
       \/ \E data \in ServerStates :
            sc = [IdleStateCall EXCEPT !.pc = "called", !.op = "update",
                                       !.data = data]

SpecState == InitState /\ [][NextState]_vars

\* The client and the commands handed to it: the connection comes and goes
\* while the main loop runs, and any command or the bb-auth request is
\* issued at any moment the event loop is free.
NextSend ==
    \/ MainLoop_check
    \/ MainLoop_start
    \/ MainLoop_render
    \/ MainLoop_sleep
    \/ WsConnect
    \/ WsConnectFail
    \/ \E data \in BossStates : WsRecvState(data)
    \/ \E success \in BOOLEAN : WsRecvAuthResult(success)
    \/ WsDrop
    \/ WsNoticeClose
    \/ WsRetry
    \/ Send_call
    \/ Auth_call

SpecSend == InitDispatch /\ [][NextSend]_vars

\* main.py:228-303: the steps of _main_loop that need no worker; every
\* iteration ends in asyncio.sleep, where the client's coroutine runs
LoopSkeleton ==
    \/ MainLoop_check
    \/ MainLoop_start
    \/ MainLoop_render
    \/ MainLoop_sleep

\* The client from connect() to disconnect(): the connect loop, the
\* messages of the server, the commands, and the disconnect() of a profile
\* switch.  The event loop runs every coroutine that can go on: an attempt
\* ends, the end of a connection is seen, the reconnect delay runs out.
NextClient ==
    \/ LoopSkeleton
    \/ WsConnect
    \/ WsConnectFail
    \/ \E data \in BossStates : WsRecvState(data)
    \/ \E success \in BOOLEAN : WsRecvAuthResult(success)
    \/ WsDrop
    \/ WsNoticeClose
    \/ WsRetry
    \/ WsDisconnect
    \/ Send_call
    \/ Auth_call

FairClient ==
    /\ InitDispatch
    /\ [][NextClient]_vars
    /\ WF_vars(LoopSkeleton)
    /\ SF_vars(WsConnect \/ WsConnectFail)
    /\ SF_vars(WsNoticeClose)
    /\ SF_vars(WsRetry)

\* A session: detections are dispatched automatically and by hand while the
\* server's bb-state messages arrive.
NextSession ==
    \/ \E t \in Contexts : CheckDeath_ocr(t)
    \/ \E t \in Contexts : ConfirmDetection_load(t)
    \/ \E t \in Contexts : ConfirmDetection_incr(t)
    \/ \E t \in Contexts : ConfirmDetection_reset(t)
    \/ \E t \in Contexts : ConfirmDetection_last(t)
    \/ \E t \in Contexts : ConfirmDetection_test(t)
    \/ \E t \in Contexts : ConfirmDetection_clear(t)
    \/ \E t \in Contexts : CheckDeath_return(t)
    \/ RunDetectionSync_capture
    \/ RunDetectionSync_noframe
    \/ RunDetectionSync_except
    \/ RunDetectionSync_finally
    \/ MainLoop_check
    \/ MainLoop_take
    \/ MainLoop_cooldown
    \/ MainLoop_start
    \/ MainLoop_render
    \/ MainLoop_sleep
    \/ WsConnect
    \/ \E data \in SessionStates : WsRecvState(data)
    \/ OnManualDeath

\* no cooldown: every confirmed detection is dispatched
InitSession == InitDispatch /\ cooldown = 0

SpecSession == InitSession /\ [][NextSession]_vars

\* The F9 selector: it is started, and F9 is pressed from two hotkey threads
\* over a window or over none.
NextCorner ==
    \/ CornerSelector_start
    \/ \E h \in HotkeyThreads : CornerSelector_on_f9_pressed(h)
    \/ \E h \in HotkeyThreads : CornerSelector_on_hotkey(h)

InitCorner == InitQuiet /\ InitKeywordIdle /\ InitRegionIdle /\ InitUiIdle

SpecCorner == InitCorner /\ [][NextCorner]_vars

\* The detection cycles alone: the main loop starts them once the client is
\* connected, the executor thread runs them.
WorkerStep ==
    \/ CheckDeath_ocr("worker")
    \/ ConfirmDetection_load("worker")
    \/ ConfirmDetection_incr("worker")
    \/ ConfirmDetection_reset("worker")
    \/ ConfirmDetection_last("worker")
    \/ ConfirmDetection_test("worker")
    \/ ConfirmDetection_clear("worker")
    \/ CheckDeath_return("worker")
    \/ RunDetectionSync_capture
    \/ RunDetectionSync_noframe
    \/ RunDetectionSync_except
    \/ RunDetectionSync_finally

NextCycle ==
    \/ WorkerStep
    \/ MainLoop_check
    \/ MainLoop_take
    \/ MainLoop_cooldown
    \/ MainLoop_start
    \/ MainLoop_render
    \/ MainLoop_sleep
    \/ WsConnect
    \/ Tick

\* the executor thread is scheduled, and capture and OCR return
FairCycle == InitDispatch /\ [][NextCycle]_vars /\ WF_vars(WorkerStep)

\* detector.py:59: consecutive_hits is read from the configuration as it
\* is, so required_streak may be 0 or negative
MinStreak == -1

\* The detection cycles of a classifier whose required_streak is whatever
\* the configuration holds.
InitStreak ==
    /\ InitCore
    /\ StateIs(InitialState)
    /\ consecutive_hits = 0
    /\ required_streak \in MinStreak..MaxStreak
    /\ ocr_available
    /\ ~live_debug_active
    /\ cooldown = 0
    /\ InitKeywordIdle
    /\ InitRegionIdle
    /\ InitUiIdle
    /\ InitConfigIdle
    /\ InitApiIdle

SpecStreak == InitStreak /\ [][NextCycle]_vars

\* ---- properties ----

\* no check_death call is active
Quiescent == \A t \in Contexts : cd[t].pc = "idle"

\* the last returned check_death call ran alone from entry to return
CleanCall == last_call.valid /\ last_call.clean

\* C1: starting from a consecutive-hit counter of 0, in a sequence of
\* N = required_streak consecutive check_death calls whose frames all match,
\* calls 1..N-1 return confirmed = false and the N-th returns confirmed =
\* true.  last_call.run is the number of matching calls made one after the
\* other since the counter was last 0.
C1_StreakConfirms ==
    (CleanCall /\ last_call.detected /\ last_call.run >= 0
       /\ required_streak >= 1)
    => (last_call.confirmed <=> last_call.run + 1 = required_streak)

C1_Witness ==
    /\ CleanCall
    /\ required_streak = 2
    /\ last_call.detected
    /\ last_call.run = 1
    /\ last_call.confirmed

C4_CounterRange ==
    (Quiescent /\ required_streak >= 1)
    => (0 <= consecutive_hits /\ consecutive_hits < required_streak)

C4_Witness ==
    /\ Quiescent
    /\ last_call.valid
    /\ required_streak >= 2
    /\ consecutive_hits = required_streak - 1

\* C5: a detection cycle whose frame is None writes (False, 0.0) to the slot
\* and leaves the counter, last_method and last_confidence as they were.
C5_NoFrameKeepsState ==
    [][((w_pc = "noframe" \/ w_pc' = "noframe") /\ w_pc' # w_pc)
         => /\ UNCHANGED classifier
            /\ w_pc = "noframe"
                 => detection_result' = Result(FALSE, ConfMiss)]_vars

\* a capture failure in the middle of an accumulating streak
C5_Witness ==
    /\ w_pc = "finally"
    /\ w_frame = "none"
    /\ detection_result = Result(FALSE, ConfMiss)
    /\ Quiescent
    /\ g_hist >= 1
    /\ consecutive_hits = g_hist
    /\ last_method = "ocr"

\* the main loop evaluates the cooldown for a confirmed detection
CooldownStep == main_pc = "cooldown" /\ main_pc' # "cooldown"

\* C6: a confirmed detection at time now is suppressed if and only if
\* now - last_dispatch_time <= cooldown_duration; a dispatch moves the
\* timestamp to now, so of two detections the first of which dispatches, the
\* second dispatches too exactly when it comes more than cooldown later.
C6_CooldownRule ==
    [][CooldownStep
         => /\ (last_eval'.forwarded = <<>>)
                 <=> (now - last_death_time <= cooldown)
            /\ (last_eval'.forwarded # <<>>) => (last_death_time' = now)]_vars

\* a detection one tick after a dispatch, inside the cooldown, was suppressed
C6_Witness ==
    /\ last_eval.valid
    /\ last_eval.forwarded = <<>>
    /\ last_death_time >= Epoch
    /\ now > last_death_time
    /\ now - last_death_time <= cooldown

\* C7: _last_death_time changes only in a step in which a death or
\* boss-death event is actually sent to the remote service.
C7_TimestampOnlyOnSend ==
    [][(last_death_time' # last_death_time)
         => (Len(last_eval'.wired) = 1)]_vars

\* C8: a dispatched automatic death forwards exactly one event to the remote
\* client, whose only field is its type: bb-boss-death if boss_mode is true
\* at dispatch time, bb-death otherwise; nothing else reaches the socket.
C8_OneEventByBossFlag ==
    [][(CooldownStep /\ now - last_death_time > cooldown)
         => /\ last_eval'.forwarded =
                 << [type |-> IF boss_mode THEN "bb-boss-death"
                                           ELSE "bb-death"] >>
            /\ last_eval'.wired \in {<<>>, last_eval'.forwarded}]_vars

C8_Witness ==
    /\ last_eval.valid
    /\ boss_mode
    /\ last_eval.forwarded = << [type |-> "bb-boss-death"] >>
    /\ last_eval.wired = last_eval.forwarded

\* C9: at most one recognition (check_death) is in flight at any time.
C9_OneRecognitionInFlight ==
    ~(cd["worker"].pc # "idle" /\ cd["calib"].pc # "idle")

\* C10: the consecutive-hit counter is read and written by the main-loop
\* thread only.
CounterAccess == {"load", "incr", "reset", "test", "clear"}

C10_CounterOnMainLoopOnly ==
    \A t \in Contexts : cd[t].pc \in CounterAccess => ThreadOf(t) = "main"

\* C11: a send that raises because the connection has closed does not end
\* the main detection loop: after the failed send the loop goes on to the
\* step that starts detection cycles.
C11_SendFailureKeepsLoop ==
    [][(CooldownStep /\ CooldownPassed(now, last_death_time, cooldown)
          /\ SendRaises)
         => main_pc' = "start"]_vars

\* C12: for every keyword set K and OCR text T the keyword match is true if
\* and only if the canonical form of some k in K (k upper-cased and stripped
\* of every non-alphanumeric character) is a substring of canonical(T) or,
\* with fuzzy matching on, of the digit-corrected canonical(T).
C12_MatchIffCanonicalSubstring ==
    LET canonical == Normalize(ck.text)
        CanonicalMatch ==
            \E i \in 1..Len(keywords) :
                \/ IsSubstring(Normalize(keywords[i]), canonical)
                \/ /\ fuzzy_matching
                   /\ IsSubstring(Normalize(keywords[i]),
                                  FuzzyCorrect(canonical))
    IN ck.pc = "returned" => (ck.found <=> CanonicalMatch)

\* C13: a configured keyword is canonicalized by upper-casing it and
\* stripping every character that is not alphanumeric, so the keyword
\* GAME-OVER matches the text 'game over'.
C13_KeywordCanonicalized ==
    ck.pc = "returned"
    => /\ \A i \in 1..Len(keywords) :
            KeywordNormalize(keywords[i]) = Normalize(keywords[i])
       /\ (ck.text = TextGameOver /\ keywords = <<KwGameOver>>) => ck.found

\* C14: the digit-to-letter correction is idempotent: correcting the
\* corrected canonical text again yields the same text.
C14_FuzzyIdempotent ==
    ck.pc = "returned"
    => /\ FuzzyCorrect(FuzzyCorrect(ck.normalized))
            = FuzzyCorrect(ck.normalized)
       /\ fuzzy_matching => FuzzyCorrect(ck.corrected) = ck.corrected

\* a text with a digit that the correction rewrites
C14_Witness ==
    /\ ck.pc = "returned"
    /\ fuzzy_matching
    /\ ck.text = TextY0uD1ed
    /\ ck.normalized # ck.corrected
    /\ ck.corrected = KwYouDied

\* C15: check_death returns confidence 1.0 on every call whose frame matched
\* a keyword, confirmed or not, and 0.0 on every other call; a call whose
\* frame has no matching text returns confirmed = false.
C15_ConfidenceBinary ==
    last_call.valid
    => /\ last_call.conf = (IF last_call.detected THEN ConfHit ELSE ConfMiss)
       /\ ~last_call.detected => ~last_call.confirmed

\* the lookup of this capture has returned
RegionResolved == rg.pc \in {"grab", "done"} /\ rg.grab # "window_region"

\* C16 as stated: with a window hint, the window found and both size
\* fractions > 0, the rectangle is x = window.x + trunc(x_frac * width),
\* y = window.y + trunc(y_frac * height), width = trunc(w_frac * width),
\* height = trunc(h_frac * height).
C16_TruncThenOffset ==
    (RegionResolved /\ region.window_name /\ window.found
       /\ region.w_percent > 0 /\ region.h_percent > 0)
    => LET wb == window.bounds
       IN rg.result =
            <<wb.x + Trunc(region.x_percent * wb.width, FracDen),
              wb.y + Trunc(region.y_percent * wb.height, FracDen),
              Trunc(region.w_percent * wb.width, FracDen),
              Trunc(region.h_percent * wb.height, FracDen)>>

\* C16 as amended: x and y are the truncations toward zero of the sums
\* window.x + x_frac * width and window.y + y_frac * height, width and
\* height those of the products.  q is the truncation of n / FracDen when
\* q * FracDen lies between 0 and n and is less than FracDen away from n.
C16_OffsetThenTrunc ==
    (RegionResolved /\ region.window_name /\ window.found
       /\ region.w_percent > 0 /\ region.h_percent > 0)
    => LET wb == window.bounds
           IsTrunc(q, n) ==
               IF n >= 0
               THEN q * FracDen <= n /\ n < (q + 1) * FracDen
               ELSE (q - 1) * FracDen < n /\ n <= q * FracDen
       IN /\ Len(rg.result) = 4
          /\ IsTrunc(rg.result[1],
                     wb.x * FracDen + region.x_percent * wb.width)
          /\ IsTrunc(rg.result[2],
                     wb.y * FracDen + region.y_percent * wb.height)
          /\ IsTrunc(rg.result[3], region.w_percent * wb.width)
          /\ IsTrunc(rg.result[4], region.h_percent * wb.height)

\* fractions (0.25, 0.40, 0.50, 0.20) against the window {100, 50, 800, 600}
C16_Witness ==
    /\ rg.pc = "done"
    /\ rg.grab = "grab_region"
    /\ region.window_name
    /\ window = [found |-> TRUE, bounds |-> Rect(100, 50, 800, 600)]
    /\ region.x_percent = 25 /\ region.y_percent = 40
    /\ region.w_percent = 50 /\ region.h_percent = 20
    /\ rg.result = <<300, 290, 400, 120>>

\* C17: with a window hint, the window not found and an absolute fallback of
\* width > 0 and height > 0, the lookup returns exactly the fallback
\* rectangle, whatever the fractions and the legacy fields hold.
C17_FallbackUnchanged ==
    (RegionResolved /\ region.window_name /\ ~window.found
       /\ region.absolute.width > 0 /\ region.absolute.height > 0)
    => rg.result = <<region.absolute.x, region.absolute.y,
                     region.absolute.width, region.absolute.height>>

C17_Witness ==
    /\ rg.pc = "done"
    /\ region.window_name
    /\ ~window.found
    /\ region.absolute = Rect(10, 10, 200, 100)
    /\ region.w_percent > 0 /\ region.h_percent > 0
    /\ region.width > 0 /\ region.height > 0
    /\ rg.result = <<10, 10, 200, 100>>
    /\ rg.grab = "grab_region"

\* C18: without a window hint the lookup returns the legacy rectangle if its
\* width and height are both > 0, and None otherwise, and then the cycle
\* grabs the whole frame.
C18_LegacyOrFullFrame ==
    (rg.pc = "done" /\ ~region.window_name)
    => IF region.width > 0 /\ region.height > 0
       THEN /\ rg.result = <<region.x, region.y, region.width, region.height>>
            /\ rg.grab = "grab_region"
       ELSE /\ rg.result = NoRegion
            /\ rg.grab = "grab"

\* a legacy rectangle of height 0, next to a usable absolute fallback
C18_Witness ==
    /\ rg.pc = "done"
    /\ ~region.window_name
    /\ region.width > 0
    /\ region.height = 0
    /\ region.absolute.width > 0 /\ region.absolute.height > 0
    /\ rg.result = NoRegion
    /\ rg.grab = "grab"

\* C19: with a window hint, the window found, a width or height fraction of
\* zero and no absolute fallback, the lookup returns the window's bounds.
C19_ZeroFractionWholeWindow ==
    (RegionResolved /\ region.window_name /\ window.found
       /\ (region.w_percent = 0 \/ region.h_percent = 0)
       /\ ~(region.absolute.width > 0 /\ region.absolute.height > 0))
    => rg.result = <<window.bounds.x, window.bounds.y, window.bounds.width,
                     window.bounds.height>>

\* C20: with a window hint, the window not found and no absolute fallback
\* (width or height <= 0), the lookup yields no rectangle and the cycle
\* grabs the whole frame; no other stored rectangle is used.
C20_UnresolvedFullFrame ==
    (rg.pc = "done" /\ region.window_name /\ ~window.found
       /\ ~(region.absolute.width > 0 /\ region.absolute.height > 0))
    => (rg.result = NoRegion /\ rg.grab = "grab")

\* C21: every rectangle used to crop or grab a frame lies inside the frame it
\* is cut from: 0 <= x < W, 0 <= y < H, x + width <= W and y + height <= H,
\* on the detection path and on the calibration paths.
C21_RectangleInsideFrame ==
    (rg.pc \in {"done", "shown"} /\ rg.used # NoRegion)
    => /\ 0 <= rg.used[1] /\ rg.used[1] < rg.frame.width
       /\ 0 <= rg.used[2] /\ rg.used[2] < rg.frame.height
       /\ rg.used[1] + rg.used[3] <= rg.frame.width
       /\ rg.used[2] + rg.used[4] <= rg.frame.height

\* C22: every window-relative region a calibration interaction produces (F9
\* corner selection or overlay drag), for any two corner points and any
\* window bounds, has x, y, w, h fractions in [0, 1] with x + w <= 1 and
\* y + h <= 1.
C22_FractionsInsideWindow ==
    (sel.pc = "done")
    => LET r == sel.result
           InUnit(f) == f[2] > 0 /\ 0 <= f[1] /\ f[1] <= f[2]
       IN /\ InUnit(r.x_percent) /\ InUnit(r.y_percent)
          /\ InUnit(r.w_percent) /\ InUnit(r.h_percent)
          /\ r.x_percent[2] = r.w_percent[2]
          /\ r.x_percent[1] + r.w_percent[1] <= r.x_percent[2]
          /\ r.y_percent[2] = r.h_percent[2]
          /\ r.y_percent[1] + r.h_percent[1] <= r.y_percent[2]

\* corners (400, 90) and (950, 950) on the window {100, 50, 800, 600}: the
\* rectangle runs past the right and bottom edges of the window
C22_Witness ==
    /\ sel.pc = "done"
    /\ sel.via = "corner"
    /\ sel.window.bounds = Rect(100, 50, 800, 600)
    /\ sel.x1 = 400 /\ sel.y1 = 90 /\ sel.x2 = 950 /\ sel.y2 = 950
    /\ sel.result.x_percent = <<300, 800>>
    /\ sel.result.w_percent = <<500, 800>>
    /\ sel.result.y_percent = <<40, 600>>
    /\ sel.result.h_percent = <<560, 600>>

\* C23: if the OCR engine raises during a frame, the exception does not
\* escape check_death: the frame counts as a non-match, the call returns
\* (false, 0.0), and the counter is 0 when it returns unless another call
\* has stored to it meanwhile.
C23_OcrErrorIsMiss ==
    \A t \in Contexts :
        (cd[t].pc = "return" /\ ocr_available /\ cd[t].seen = "ocrerr")
        => /\ ~cd[t].detected
           /\ ~cd[t].confirmed
           /\ cd[t].conf = ConfMiss
           /\ ~cd[t].overlap => consecutive_hits = 0

C25_ReloadResets ==
    [][(config' # config \/ consecutive_hits' # consecutive_hits
          \/ required_streak' # required_streak)
       => /\ consecutive_hits' = 0
          /\ required_streak' = config'.consecutive_hits
          /\ fuzzy_matching' = config'.fuzzy_ocr_matching
          /\ keywords' = (IF config'.current_game \in DOMAIN Games
                          THEN Games[config'.current_game].keywords
                          ELSE DefaultKeywords)
          /\ tesseract_config'
               = (IF config'.current_game \in DOMAIN Games
                  THEN Games[config'.current_game].tesseract_config
                  ELSE "--oem 3 --psm 6")]_vars

\* reloaded with Sekiro's settings, a streak of 1 and fuzzy matching off
C25_Witness ==
    /\ config.current_game = "Sekiro"
    /\ config.consecutive_hits = 1
    /\ ~config.fuzzy_ocr_matching
    /\ consecutive_hits = 0
    /\ required_streak = 1
    /\ ~fuzzy_matching
    /\ keywords = <<KwYouDied>>
    /\ tesseract_config = Games["Sekiro"].tesseract_config
    /\ cooldown # config.death_cooldown

\* C26: after the user changes the current game or the detection settings
\* while the application runs, the classifier is reloaded: the counter is 0
\* and the keywords, the engine options and the cooldown in use are those of
\* the new settings.
C26_ChangeReloads ==
    [][(config' # config)
       => /\ consecutive_hits' = 0
          /\ keywords' = (IF config'.current_game \in DOMAIN Games
                          THEN Games[config'.current_game].keywords
                          ELSE DefaultKeywords)
          /\ tesseract_config'
               = (IF config'.current_game \in DOMAIN Games
                  THEN Games[config'.current_game].tesseract_config
                  ELSE "--oem 3 --psm 6")
          /\ cooldown' = config'.death_cooldown]_vars

\* the mirrored session values the server owns
Mirrored == <<st.deaths, st.boss_deaths, boss_mode>>

\* C27: dispatching a death or boss-death event, automatic or manual,
\* leaves the local deaths, boss_deaths and boss_mode unchanged; they change
\* only in the step that applies a bb-state message of the server.
C27_DispatchKeepsMirror ==
    [][/\ (sd' # sd \/ (last_eval' # last_eval /\ last_eval'.valid))
            => Mirrored' = Mirrored
       /\ (Mirrored' # Mirrored)
            => /\ main_pc = "sleep" /\ ws_pc = "connected" /\ ws_sock = "open"
               /\ connected'
               /\ UNCHANGED <<sd, last_eval, last_death_time>>]_vars

\* a manual boss death went out after the server had raised both counters
C27_Witness ==
    /\ sd.valid
    /\ sd.type = "bb-boss-death"
    /\ sd.wired # <<>>
    /\ st.deaths = MaxCount
    /\ st.boss_deaths = MaxCount
    /\ boss_mode
    /\ last_death_time >= Epoch

\* C28: set(key, value) on an existing key whose value differs stores the
\* value and notifies every subscriber once with (key, value), in
\* subscription order; on the current value or on a key the state lacks it
\* changes nothing and notifies nobody.
C28_SetStoresAndNotifies ==
    (sc.pc = "returned" /\ sc.op = "set") =>
        IF sc.key \in StateKeys /\ sc.before[sc.key] # sc.value
        THEN /\ StateDict = [sc.before EXCEPT ![sc.key] = sc.value]
             /\ Len(sc.notes) = Len(subscribers)
             /\ \A i \in 1..Len(subscribers) :
                    sc.notes[i] = <<subscribers[i], sc.key, sc.value>>
        ELSE /\ StateDict = sc.before
             /\ sc.notes = <<>>

\* two subscribers were told of a new death count
C28_Witness ==
    /\ sc.pc = "returned"
    /\ sc.op = "set"
    /\ sc.key = "deaths"
    /\ st.deaths # sc.before.deaths
    /\ Len(sc.notes) = 2

\* C29: update_from_server sets each local field whose server key is in the
\* message to the server's value, leaves every other field unchanged, and
\* never changes connected or detection_enabled.
C29_ServerUpdateMapsPresentKeys ==
    (sc.pc = "returned" /\ sc.op = "update") =>
        LET Field(server_key, state_key) ==
                StateDict[state_key] =
                    IF server_key \in sc.data.has THEN sc.data[server_key]
                    ELSE sc.before[state_key]
        IN /\ Field("deaths", "deaths")
           /\ Field("elapsed", "elapsed")
           /\ Field("isRunning", "is_running")
           /\ Field("bossFightMode", "boss_mode")
           /\ Field("bossDeaths", "boss_deaths")
           /\ Field("bossPaused", "boss_paused")
           /\ Field("canEdit", "can_edit")
           /\ Field("profileName", "profile")
           /\ Field("displayName", "profile_display_name")
           /\ connected = sc.before.connected
           /\ detection_enabled = sc.before.detection_enabled

\* a message with bossDeaths and without deaths changed the one and kept
\* the other
C29_Witness ==
    /\ sc.pc = "returned"
    /\ sc.op = "update"
    /\ "bossDeaths" \in sc.data.has
    /\ "deaths" \notin sc.data.has
    /\ st.boss_deaths # sc.before.boss_deaths
    /\ st.deaths = sc.before.deaths
    /\ st.deaths = MaxCount

\* C30: an edit command reaches the wire only when a socket exists and
\* authenticated is true; in every other state the call sends nothing and
\* raises nothing; only bb-auth is sent while unauthenticated.
C30_EditNeedsAuthentication ==
    sd.valid =>
        /\ (sd.type # "bb-auth" /\ sd.wired # <<>>)
              => (sd.sock # "none" /\ sd.auth)
        /\ (sd.type # "bb-auth" /\ ~(sd.sock # "none" /\ sd.auth))
              => (sd.wired = <<>> /\ ~sd.raised)
        /\ (sd.wired # <<>> /\ ~sd.auth) => sd.type = "bb-auth"

\* a boss-fight start was dropped on an open socket that is not
\* authenticated
C30_Witness ==
    /\ sd.valid
    /\ sd.type = "bb-boss-start"
    /\ sd.sock = "open"
    /\ ~sd.auth
    /\ sd.wired = <<>>

\* C31: the calibration test reports the frame's own match, without streak
\* confirmation: its call never writes the consecutive-hit counter, and what
\* it returns is whether its frame matched.
C31_CalibrationWithoutStreak ==
    [][(cd'["calib"].pc # cd["calib"].pc)
         => /\ consecutive_hits' = consecutive_hits
            /\ (cd'["calib"].pc = "return")
                 => (cd'["calib"].confirmed = cd'["calib"].detected)]_vars

\* C32: after start() the first F9 over a window records the window and the
\* first corner, and an F9 over no window leaves the selector at step 0; the
\* second F9 completes, calls on_complete once and deactivates; while the
\* selector is inactive an F9 changes nothing, from whichever thread.
C32_TwoStepProtocol ==
    [][IF ~cs.active /\ cs'.active
       THEN cs'.corners = <<>> /\ cs'.completes = 0
       ELSE /\ (cs'.corners # cs.corners)
                 => \/ /\ cs.active /\ Len(cs.corners) = 0
                       /\ Len(cs'.corners) = 1
                       /\ cs'.target.found
                       /\ cs'.active
                       /\ cs'.completes = cs.completes
                    \/ /\ cs.active /\ Len(cs.corners) = 1
                       /\ Len(cs'.corners) = 2
                       /\ cs'.corners[1] = cs.corners[1]
                       /\ cs'.target = cs.target
                       /\ ~cs'.active
                       /\ cs'.completes = 1
            /\ (cs'.corners = cs.corners)
                 => /\ cs'.active = cs.active
                    /\ cs'.target = cs.target
                    /\ cs'.completes = cs.completes
            /\ cs'.completes <= 1]_vars

\* the selection was completed while a second F9 press was on its way
C32_Witness ==
    /\ ~cs.active
    /\ Len(cs.corners) = 2
    /\ cs.completes = 1
    /\ cs.target.found
    /\ \E h \in HotkeyThreads : hk[h] = "entered"

\* C33: a confirmed result written to the hand-off slot leaves the slot only
\* when the main loop, having read that very result, clears the slot and goes
\* on to evaluate the cooldown; no later detection cycle replaces it first.
C33_ConfirmedResultObserved ==
    [][(/\ detection_result.set
        /\ detection_result.is_dead
        /\ detection_result' # detection_result)
         => /\ main_pc = "take"
            /\ m_result = detection_result
            /\ main_pc' = "cooldown"]_vars

\* C34: a started cycle first writes a result to the hand-off slot and then
\* clears the in-flight flag, also when capture or classification raises:
\* every way to the finally clause writes the slot, the flag is cleared in
\* the finally clause only, and a set flag is always cleared in the end.
C34_CycleWritesThenClears ==
    /\ [][/\ (w_pc # "finally" /\ w_pc' = "finally") => detection_result'.set
          /\ (detection_running /\ ~detection_running')
               => (w_pc = "finally" /\ w_pc' = "idle")]_vars
    /\ (detection_running ~> ~detection_running)

\* a cycle whose capture raised has written its result and not yet cleared
\* the flag
C34_Witness ==
    /\ w_pc = "finally"
    /\ w_frame = "raise"
    /\ detection_running
    /\ detection_result = Result(FALSE, ConfMiss)

\* C35: in every step in which the main loop hands bb-death or bb-boss-death
\* to the client for a detection, detection_enabled and connected are both
\* true.
C35_DispatchOnlyWhileEnabled ==
    [][(CooldownStep /\ last_eval'.forwarded # <<>>)
         => (detection_enabled /\ connected)]_vars

\* C36: whatever required_streak the configuration holds, check_death
\* returns confirmed = true only on a call whose own frame matched a keyword.
C36_MissNeverConfirms ==
    \A t \in Contexts :
        (cd[t].pc = "return" /\ cd[t].confirmed) => cd[t].detected

\* C37: while the client runs, every end of a connection and every failed
\* attempt resets authenticated, reports the disconnect to the shared state
\* and is followed by a new attempt; every connection starts
\* unauthenticated, authenticated rises only by a message of the open
\* connection, and before that nothing but bb-auth reaches the wire.
C37_ReconnectWhileRunning ==
    /\ [][/\ (/\ ws_running
              /\ ws_pc \in {"connecting", "connected"}
              /\ ws_pc' \notin {ws_pc, "connected"})
            => /\ ws_pc' = "backoff"
               /\ ~authenticated'
               /\ ~connected'
               /\ ~st'.can_edit
          /\ (ws_pc # "connected" /\ ws_pc' = "connected")
            => (~authenticated' /\ ws_sock' = "open")
          /\ (~authenticated /\ authenticated')
            => (ws_pc = "connected" /\ ws_sock = "open" /\ ws_pc' = ws_pc)
          /\ (sd' # sd /\ sd'.wired # <<>> /\ sd'.type # "bb-auth")
            => authenticated]_vars
    /\ (ws_running /\ ws_pc = "connected" /\ ws_sock = "closed")
          ~> (ws_pc = "backoff" \/ ~ws_running)
    /\ (ws_running /\ ws_pc = "backoff")
          ~> (ws_pc = "connecting" \/ ~ws_running)

\* an authenticated connection was lost and the client waits to reconnect,
\* unauthenticated and reported as disconnected
C37_Witness ==
    /\ ws_running
    /\ ws_pc = "backoff"
    /\ ws_sock = "closed"
    /\ ~authenticated
    /\ ~connected
    /\ sd.valid
    /\ sd.auth
    /\ sd.wired # <<>>

\* C38: after disconnect() the connect loop makes no further connection,
\* delivers no further on_connect or on_state to the shared state, and
\* terminates.
C38_DisconnectStops ==
    /\ [][~ws_running
            => /\ ~(ws_pc # "connected" /\ ws_pc' = "connected")
               /\ <<connected, boss_mode, st>>' = <<connected, boss_mode, st>>
         ]_vars
    /\ (~ws_running ~> ws_pc = "stopped")

\* C39: once _on_save_region has stored a region whose absolute (or legacy)
\* width and height are positive, the stored configuration holds at most one
\* active representation, and the lookup of a cycle that finds no window
\* returns a rectangle, never the full-frame sentinel.
C39_SavedRegionResolves ==
    LET d == rg.saved
        sized == IF "window_name" \in d.has
                 THEN d.absolute.width > 0 /\ d.absolute.height > 0
                 ELSE d.width > 0 /\ d.height > 0
    IN (d # NoSave /\ sized)
         => /\ ~(region.window_name /\ region.width > 0 /\ region.height > 0)
            /\ (rg.pc \in {"grab", "done"} /\ ~window.found)
                 => (rg.result # NoRegion /\ rg.grab # "grab")

====
